---- MODULE Spec2Model ----
(***************************************************************************)
(* Discovery aggregation and opportunity scoring of headless-studio:       *)
(*   backend/app/services/gumroad_scout.py        competition analysis     *)
(*   backend/app/services/scorer.py               score_unified_signals    *)
(*   backend/app/services/discovery_aggregator.py run_discovery            *)
(*                                                                         *)
(* Text is a sequence of one-character strings, so that lower(), split()   *)
(* and the substring test `in` are computed, not assumed.  Ratings are in  *)
(* tenths of a star and an average is an exact fraction.                   *)
(***************************************************************************)
EXTENDS Integers, Sequences, FiniteSets, TLC

VARIABLES
    products,          \* _analyze_competition: the listings handed in
    competition_data,  \* _analyze_competition: the CompetitionData returned
    score_args,        \* score_unified_signals: its arguments
    score_result,      \* score_unified_signals: the dict returned
    infer_args,        \* _infer_product_type_unified: its arguments
    infer_result,      \* _infer_product_type_unified: the type returned
    price_args,        \* _suggest_price: its arguments
    price_result,      \* _suggest_price: the price returned
    \* DiscoveryAggregator and its collaborators
    x_api_key,         \* XGrokScout.api_key is set (is_configured)
    reddit_is_configured, \* what reading reddit_scout.is_configured yields
    trends_is_available,  \* TrendsScout.is_available
    store,             \* the opportunity store read by _is_duplicate
    \* one call of run_discovery
    pc,                \* where the call stands
    config,            \* DiscoveryConfig
    errors,
    all_x_signals,
    all_reddit_signals,
    reddit_i,          \* index of the Reddit loop over config.topics[:3]
    topic_i,           \* index of the loop over config.topics
    opportunities,
    below_threshold,
    duplicates_filtered,
    filtered_opportunities,
    dup_i,             \* index of the duplicate loop over opportunities
    result,            \* the DiscoveryResult returned
    \* history of the call, read by the properties only
    x_call,            \* how the X search went
    enrichment,        \* per scored topic: topic, trend score, competition
    built,             \* every opportunity as scored, in order
    dup_checked,       \* the _is_duplicate lookups made, in order
    before_truncation, \* the opportunities list on entry to line 314
    \* GumroadCompetitionScout
    gum_listings,      \* what the marketplace lists (the same for every query)
    gum_cache,         \* self._cache: cache key -> CompetitionData or None
    gum_now,           \* datetime.utcnow(), in hours
    gum_calls,         \* history: the calls of search_competitors, in order
    \* TrendsScout
    trend_enabled,     \* self._enabled
    trend_pytrends,    \* whether _get_pytrends can load and build the client
    trend_cache,       \* self._cache: cache key -> (TrendData, timestamp) or None
    trend_rate_limit_until, \* self._rate_limit_until
    trend_now,         \* time.time(), in seconds
    trend_calls,       \* history: the calls of analyze_keyword, in order
    trend_executing,   \* self._executor: upstream requests its workers are running
    trend_pending      \* self._executor: submitted requests no worker has taken yet

\* Python's None: for an optional object, and for an optional number (every
\* optional number of the code is >= 0 when present)
None == [none |-> TRUE]
NoNumber == -1

(***************************************************************************)
(* Generic list helpers (Python built-ins used by the code).               *)
(***************************************************************************)
RECURSIVE SumSeq(_)
SumSeq(s) == IF s = <<>> THEN 0 ELSE Head(s) + SumSeq(Tail(s))

RECURSIVE MinSeq(_)
MinSeq(s) == IF Len(s) = 1 THEN s[1]
             ELSE LET m == MinSeq(Tail(s)) IN IF s[1] < m THEN s[1] ELSE m

RECURSIVE MaxSeq(_)
MaxSeq(s) == IF Len(s) = 1 THEN s[1]
             ELSE LET m == MaxSeq(Tail(s)) IN IF s[1] > m THEN s[1] ELSE m

Min2(a, b) == IF a < b THEN a ELSE b
Max2(a, b) == IF a > b THEN a ELSE b

\* s[:n] of Python for any integer n (a negative n drops from the end)
Slice(s, n) == IF n >= 0 THEN SubSeq(s, 1, Min2(n, Len(s)))
               ELSE SubSeq(s, 1, Max2(Len(s) + n, 0))

\* [x for x in s if keep(x)]
Filter(s, keep(_)) == SelectSeq(s, keep)

Map(s, f(_)) == [i \in 1..Len(s) |-> f(s[i])]

\* n copies of x
Rep(x, n) == [i \in 1..n |-> x]

RECURSIVE Gcd(_, _)
Gcd(a, b) == IF b = 0 THEN a ELSE Gcd(b, a % b)

\* the exact value num/den, den > 0, num >= 0, in lowest terms
Fraction(num, den) == LET g == Gcd(num, den) IN [num |-> num \div g, den |-> den \div g]

(***************************************************************************)
(* Python str operations on text (sequences of one-character strings).     *)
(***************************************************************************)
LowerChar(c) ==
    CASE c = "A" -> "a" [] c = "E" -> "e" [] c = "I" -> "i" [] c = "O" -> "o"
      [] c = "S" -> "s" [] c = "T" -> "t" [] OTHER -> c

\* str.lower()
Lower(t) == [i \in 1..Len(t) |-> LowerChar(t[i])]

\* str.split(): the maximal runs of non-blank characters
RECURSIVE SplitFrom(_, _, _)
SplitFrom(t, i, word) ==
    IF i > Len(t) THEN (IF word = <<>> THEN <<>> ELSE <<word>>)
    ELSE IF t[i] = " "
         THEN (IF word = <<>> THEN <<>> ELSE <<word>>) \o SplitFrom(t, i + 1, <<>>)
         ELSE SplitFrom(t, i + 1, Append(word, t[i]))

Split(t) == SplitFrom(t, 1, <<>>)

\* `needle in hay`
Contains(hay, needle) ==
    \E i \in 0..(Len(hay) - Len(needle)) : SubSeq(hay, i + 1, i + Len(needle)) = needle

(***************************************************************************)
(* gumroad_scout.py: GumroadProduct, CompetitionData, _analyze_competition *)
(***************************************************************************)
\* A listing as _parse_product_item builds it: rating in tenths of a star or
\* NoNumber, review_count and price_cents a number or NoNumber.
GumroadProduct(rating, review_count, price_cents) ==
    [rating |-> rating, review_count |-> review_count, price_cents |-> price_cents]

\* `p.rating is not None and p.review_count and p.review_count > 0`
HasReviewedRating(p) ==
    /\ p.rating # NoNumber
    /\ p.review_count # NoNumber
    /\ p.review_count # 0
    /\ p.review_count > 0

AnalyzeLevelBroken(count, avg_rating) ==
    IF count = 0 THEN [level |-> "none", penalty |-> -10]
    ELSE IF count >= 8 \/ (count >= 4 /\ avg_rating # None
                           /\ avg_rating.num > 45 * avg_rating.den)
         THEN [level |-> "saturated", penalty |-> -20]
    ELSE IF avg_rating # None /\ avg_rating.num < 35 * avg_rating.den
         THEN [level |-> "low_quality", penalty |-> -3]
    ELSE IF count >= 4 THEN [level |-> "high", penalty |-> -10]
    ELSE [level |-> "validated", penalty |-> -5]

\* the if/elif chain of lines 336-351; avg_rating is in tenths, so
\* avg < 3.5 is num < 35 * den and avg > 4.5 is num > 45 * den.  The test
\* `avg_rating and` drops a zero average, which is not above 4.5 anyway.
AnalyzeLevel(count, avg_rating) ==
    IF count = 0 THEN [level |-> "none", penalty |-> -10]
    ELSE IF avg_rating # None /\ avg_rating.num < 35 * avg_rating.den /\ count > 0
         THEN [level |-> "low_quality", penalty |-> -3]
    ELSE IF count >= 8 \/ (count >= 4 /\ avg_rating # None /\ avg_rating.num # 0
                           /\ avg_rating.num > 45 * avg_rating.den)
         THEN [level |-> "saturated", penalty |-> -20]
    ELSE IF count >= 4 THEN [level |-> "high", penalty |-> -10]
    ELSE [level |-> "validated", penalty |-> -5]

AnalyzeCompetition(keyword, prods) ==
    LET count   == Len(prods)
        priced(p) == p.price_cents # NoNumber
        price_of(p) == p.price_cents
        prices  == Map(Filter(prods, priced), price_of)
        rating_of(p) == p.rating
        ratings == Map(Filter(prods, HasReviewedRating), rating_of)
        avg_rating == IF ratings = <<>> THEN None
                      ELSE Fraction(SumSeq(ratings), Len(ratings))
        reviews_of(p) == IF p.review_count = NoNumber THEN 0 ELSE p.review_count
        lp == AnalyzeLevel(count, avg_rating)
    IN  [keyword           |-> keyword,
         product_count     |-> count,
         price_range_cents |-> IF prices = <<>> THEN <<>>
                               ELSE <<MinSeq(prices), MaxSeq(prices)>>,
         avg_price_cents   |-> IF prices = <<>> THEN NoNumber
                               ELSE SumSeq(prices) \div Len(prices),
         avg_rating        |-> avg_rating,
         total_reviews     |-> SumSeq(Map(prods, reviews_of)),
         competition_level |-> lp.level,
         competition_penalty |-> lp.penalty]

\* the summary search_competitors returns when the fetch fails (lines 107-115)
UnknownCompetition(keyword) ==
    [keyword           |-> keyword,
     product_count     |-> 0,
     price_range_cents |-> <<>>,
     avg_price_cents   |-> NoNumber,
     avg_rating        |-> None,
     total_reviews     |-> 0,
     competition_level |-> "unknown",
     competition_penalty |-> -5]

(***************************************************************************)
(* x_scout.py XSignal, models/signals.py RedditSignal: the fields the      *)
(* scorer and the aggregator read.                                         *)
(***************************************************************************)
XSignal(text, url, pain_points, buying_signals) ==
    [text |-> text, url |-> url, pain_points |-> pain_points,
     buying_signals |-> buying_signals]

RedditSignal(post_title, post_url, post_score, comment_count, pain_points, buying_signals) ==
    [post_title |-> post_title, post_url |-> post_url, post_score |-> post_score,
     comment_count |-> comment_count, pain_points |-> pain_points,
     buying_signals |-> buying_signals]

DigitalProduct == <<"d","i","g","i","t","a","l"," ","p","r","o","d","u","c","t">>

(***************************************************************************)
(* scorer.py: OpportunityScorer.score_unified_signals                      *)
(***************************************************************************)
\* lines 442-451
XDemand(x_count) ==
    IF x_count >= 20 THEN 30
    ELSE IF x_count >= 10 THEN 22
    ELSE IF x_count >= 5 THEN 15
    ELSE IF x_count >= 2 THEN 8
    ELSE 0

\* line 456: sum(s.post_score + (s.comment_count * 2) for s in reddit_signals)
TotalEngagement(reddit_signals) ==
    LET e(s) == s.post_score + (s.comment_count * 2)
    IN  SumSeq(Map(reddit_signals, e))

RedditDemandByCount(reddit_signals) ==
    LET reddit_count == Len(reddit_signals)
    IN  IF reddit_count >= 10 THEN 10
        ELSE IF reddit_count >= 5 THEN 7
        ELSE IF reddit_count >= 2 THEN 4
        ELSE 0

\* lines 454-462
RedditDemand(reddit_signals) ==
    LET reddit_count == Len(reddit_signals)
        total_engagement == TotalEngagement(reddit_signals)
    IN  IF reddit_count >= 10 /\ total_engagement >= 500 THEN 10
        ELSE IF reddit_count >= 5 /\ total_engagement >= 200 THEN 7
        ELSE IF reddit_count >= 2 THEN 4
        ELSE 0

\* lines 465-470
TrendDemand(trend_score) ==
    IF trend_score >= 70 THEN 10
    ELSE IF trend_score >= 50 THEN 7
    ELSE IF trend_score >= 30 THEN 4
    ELSE 0

\* lines 438-472
DemandScore(x_signals, reddit_signals, trend_score) ==
    Min2(XDemand(Len(x_signals)) + RedditDemand(reddit_signals) + TrendDemand(trend_score), 50)

\* sum(len(s.pain_points) ...) and sum(len(s.buying_signals) ...); an XSignal
\* has no signal_type attribute, so lines 487-491 add nothing
CountPainPoints(signals) ==
    LET n(s) == Len(s.pain_points) IN SumSeq(Map(signals, n))

CountBuyingSignals(signals) ==
    LET n(s) == Len(s.buying_signals) IN SumSeq(Map(signals, n))

XIntentSwapped(x_signals) ==
    LET x_buying == CountPainPoints(x_signals)
        x_pain_points == CountBuyingSignals(x_signals)
    IN  (IF x_buying >= 10 THEN 15 ELSE IF x_buying >= 5 THEN 10
         ELSE IF x_buying >= 2 THEN 5 ELSE 0)
      + (IF x_pain_points >= 10 THEN 10 ELSE IF x_pain_points >= 5 THEN 7
         ELSE IF x_pain_points >= 2 THEN 4 ELSE 0)

\* lines 478-507
XIntent(x_signals) ==
    LET x_buying == CountBuyingSignals(x_signals)
        x_pain_points == CountPainPoints(x_signals)
    IN  (IF x_buying >= 10 THEN 15 ELSE IF x_buying >= 5 THEN 10
         ELSE IF x_buying >= 2 THEN 5 ELSE 0)
      + (IF x_pain_points >= 10 THEN 10 ELSE IF x_pain_points >= 5 THEN 7
         ELSE IF x_pain_points >= 2 THEN 4 ELSE 0)

\* lines 510-522
RedditIntent(reddit_signals) ==
    LET reddit_buying == CountBuyingSignals(reddit_signals)
        reddit_pain == CountPainPoints(reddit_signals)
    IN  (IF reddit_buying >= 5 THEN 5 ELSE IF reddit_buying >= 2 THEN 3 ELSE 0)
      + (IF reddit_pain >= 5 THEN 5 ELSE IF reddit_pain >= 2 THEN 3 ELSE 0)

\* lines 474-524
IntentScore(x_signals, reddit_signals) ==
    Min2(XIntent(x_signals) + RedditIntent(reddit_signals), 40)

\* lines 527-534
CompetitionPenalty(comp) ==
    IF comp # None THEN comp.competition_penalty ELSE -5

TotalScoreUnclamped(demand_score, intent_score, competition_penalty) ==
    demand_score + intent_score + competition_penalty

TotalScoreNoPenalty(demand_score, intent_score, competition_penalty) ==
    Max2(0, Min2(demand_score + intent_score, 100))

\* line 537: max(0, min(demand_score + intent_score + competition_penalty, 100))
TotalScore(demand_score, intent_score, competition_penalty) ==
    Max2(0, Min2(demand_score + intent_score + competition_penalty, 100))

\* lines 540-546
Confidence(total_signals, total_score) ==
    IF total_signals >= 15 /\ total_score >= 70 THEN "high"
    ELSE IF total_signals >= 7 /\ total_score >= 50 THEN "medium"
    ELSE "low"

\* lines 560-566
EvidenceUrls(x_signals, reddit_signals) ==
    LET has_url(s) == s.url # ""
        url_of(s) == s.url
        has_post_url(s) == s.post_url # ""
        post_url_of(s) == s.post_url
    IN  Map(Filter(Slice(x_signals, 5), has_url), url_of)
        \o Map(Filter(Slice(reddit_signals, 3), has_post_url), post_url_of)

\* line 599, for a non-empty primary_keyword (run_discovery passes the topic):
\* `primary_keyword or self._extract_keyword(reddit_signals) if reddit_signals
\* else "digital product"` is a conditional expression on reddit_signals
ResultKeyword(primary_keyword, reddit_signals) ==
    IF reddit_signals # <<>> THEN primary_keyword ELSE DigitalProduct

\* lines 414-436: the record returned when there is no signal at all
NoSignalResult(primary_keyword) ==
    [opportunity_score   |-> 0,
     demand_score        |-> 0,
     intent_score        |-> 0,
     competition_penalty |-> 0,
     confidence          |-> "low",
     primary_keyword     |-> primary_keyword,
     evidence_urls       |-> <<>>]

\* every addend is a whole number, so round(x, 1) of lines 594-597 returns x
ScoreUnifiedSignals(x_signals, reddit_signals, trend_score, primary_keyword, comp) ==
    IF x_signals = <<>> /\ reddit_signals = <<>>
    THEN NoSignalResult(primary_keyword)
    ELSE LET demand_score == DemandScore(x_signals, reddit_signals, trend_score)
             intent_score == IntentScore(x_signals, reddit_signals)
             competition_penalty == CompetitionPenalty(comp)
             total_score == TotalScore(demand_score, intent_score, competition_penalty)
             total_signals == Len(x_signals) + Len(reddit_signals)
         IN  [opportunity_score   |-> total_score,
              demand_score        |-> demand_score,
              intent_score        |-> intent_score,
              competition_penalty |-> competition_penalty,
              confidence          |-> Confidence(total_signals, total_score),
              primary_keyword     |-> ResultKeyword(primary_keyword, reddit_signals),
              x_mentions          |-> Len(x_signals),
              reddit_mentions     |-> Len(reddit_signals),
              evidence_urls       |-> EvidenceUrls(x_signals, reddit_signals)]

(***************************************************************************)
(* scorer.py: _infer_product_type_unified and _suggest_price               *)
(***************************************************************************)
\* PRODUCT_TYPE_KEYWORDS, in the order of the dict
PRODUCT_TYPE_KEYWORDS ==
    << [type |-> "prompt_pack",
        keywords |-> << <<"p","r","o","m","p","t">>, <<"c","h","a","t","g","p","t">>,
                        <<"g","p","t">>, <<"a","i"," ","p","r","o","m","p","t">>,
                        <<"l","l","m">>, <<"c","l","a","u","d","e">> >>],
       [type |-> "guide",
        keywords |-> << <<"g","u","i","d","e">>, <<"t","u","t","o","r","i","a","l">>,
                        <<"h","o","w"," ","t","o">>, <<"l","e","a","r","n">>,
                        <<"c","o","u","r","s","e">>,
                        <<"s","t","e","p"," ","b","y"," ","s","t","e","p">> >>],
       [type |-> "template_pack",
        keywords |-> << <<"t","e","m","p","l","a","t","e">>, <<"n","o","t","i","o","n">>,
                        <<"s","p","r","e","a","d","s","h","e","e","t">>,
                        <<"w","o","r","k","s","h","e","e","t">>, <<"d","o","c">> >>],
       [type |-> "checklist",
        keywords |-> << <<"c","h","e","c","k","l","i","s","t">>,
                        <<"f","r","a","m","e","w","o","r","k">>,
                        <<"p","r","o","c","e","s","s">>, <<"s","y","s","t","e","m">>,
                        <<"s","o","p">>, <<"r","o","u","t","i","n","e">> >>],
       [type |-> "roadmap",
        keywords |-> << <<"r","o","a","d","m","a","p">>, <<"p","l","a","n">>,
                        <<"s","t","r","a","t","e","g","y">>, <<"p","a","t","h">>,
                        <<"j","o","u","r","n","e","y">>, <<"c","a","r","e","e","r">> >> ] >>

\* ' '.join(texts)
RECURSIVE JoinSpace(_)
JoinSpace(texts) ==
    IF texts = <<>> THEN <<>>
    ELSE IF Len(texts) = 1 THEN texts[1]
    ELSE texts[1] \o <<" ">> \o JoinSpace(Tail(texts))

\* the number of keywords of the list that occur in the text
KeywordHits(text, keywords) ==
    Cardinality({ k \in 1..Len(keywords) : Contains(text, keywords[k]) })

\* line 620: sig.text.lower()
XText(sig) == Lower(sig.text)

\* line 628: f"{signal.post_title} {' '.join(signal.questions)}".lower()
RedditText(signal) == Lower(signal.post_title \o <<" ">> \o JoinSpace(signal.questions))

\* lines 616-632: type_scores[product_type] after both loops
TypeScore(keywords, x_signals, reddit_signals) ==
    2 * SumSeq([i \in 1..Len(x_signals) |-> KeywordHits(XText(x_signals[i]), keywords)])
    + SumSeq([i \in 1..Len(reddit_signals) |->
                 KeywordHits(RedditText(reddit_signals[i]), keywords)])

TypeScores(x_signals, reddit_signals) ==
    [t \in 1..Len(PRODUCT_TYPE_KEYWORDS) |->
        TypeScore(PRODUCT_TYPE_KEYWORDS[t].keywords, x_signals, reddit_signals)]

\* line 634: max(type_scores, key=type_scores.get) is the first key, in dict
\* order, whose score is the highest
BestType(type_scores) ==
    CHOOSE t \in 1..Len(type_scores) :
        /\ \A u \in 1..Len(type_scores) : type_scores[u] <= type_scores[t]
        /\ \A u \in 1..(t - 1) : type_scores[u] < type_scores[t]

\* lines 614-635
InferProductTypeUnified(x_signals, reddit_signals) ==
    LET type_scores == TypeScores(x_signals, reddit_signals)
        best_type == BestType(type_scores)
    IN  IF type_scores[best_type] > 0 THEN PRODUCT_TYPE_KEYWORDS[best_type].type ELSE "guide"

\* PRICE_RANGES (cents)
PRICE_RANGES ==
    [prompt_pack   |-> [min |-> 500, max |-> 1500, default |-> 900],
     guide         |-> [min |-> 900, max |-> 2900, default |-> 1900],
     template_pack |-> [min |-> 700, max |-> 1900, default |-> 1200],
     checklist     |-> [min |-> 500, max |-> 1200, default |-> 700],
     roadmap       |-> [min |-> 900, max |-> 2500, default |-> 1500]]

\* line 333: PRICE_RANGES.get(product_type, PRICE_RANGES["guide"])
PriceRange(product_type) ==
    IF product_type \in DOMAIN PRICE_RANGES THEN PRICE_RANGES[product_type]
    ELSE PRICE_RANGES["guide"]

SuggestPriceSwapped(product_type, score) ==
    LET price_range == PriceRange(product_type)
    IN  IF score >= 80 THEN price_range.max
        ELSE IF score >= 60 THEN price_range.default
        ELSE IF score >= 40 THEN (price_range.max + price_range.default) \div 2
        ELSE price_range.min

\* lines 331-343; int(x / 2) of a non-negative x is x \div 2
SuggestPrice(product_type, score) ==
    LET price_range == PriceRange(product_type)
    IN  IF score >= 80 THEN price_range.max
        ELSE IF score >= 60 THEN (price_range.max + price_range.default) \div 2
        ELSE IF score >= 40 THEN price_range.default
        ELSE price_range.min

(***************************************************************************)
(* discovery_aggregator.py: the stages of run_discovery                    *)
(***************************************************************************)
\* line 214: [kw.lower() for kw in topic.split() if len(kw) > 2]
TopicKeywords(topic) ==
    LET long(kw) == Len(kw) > 2
    IN  Map(Filter(Split(topic), long), Lower)

AnyKeywordIn(keywords, text) ==
    \E k \in 1..Len(keywords) : Contains(Lower(text), keywords[k])

\* lines 215-222
TopicXSignals(all_x, topic) ==
    LET hit(s) == AnyKeywordIn(TopicKeywords(topic), s.text)
        topic_x_signals == Filter(all_x, hit)
    IN  IF topic_x_signals = <<>> THEN all_x ELSE topic_x_signals

\* lines 224-229
TopicRedditSignals(all_reddit, topic) ==
    LET hit(s) == \/ Contains(Lower(s.post_title), Lower(topic))
                  \/ AnyKeywordIn(TopicKeywords(topic), s.post_title)
    IN  Filter(all_reddit, hit)

\* lines 259-288: the DiscoveredOpportunity built from the scorer's result
BuildOpportunity(topic, topic_x_signals, topic_reddit_signals, trend_score, comp) ==
    LET score == ScoreUnifiedSignals(topic_x_signals, topic_reddit_signals,
                                     trend_score, topic, comp)
    IN  [opportunity_score   |-> score.opportunity_score,
         demand_score        |-> score.demand_score,
         intent_score        |-> score.intent_score,
         competition_penalty |-> score.competition_penalty,
         confidence          |-> score.confidence,
         primary_keyword     |-> score.primary_keyword,
         x_mentions          |-> Len(topic_x_signals),
         reddit_mentions     |-> Len(topic_reddit_signals),
         trend_score         |-> trend_score,
         evidence_urls       |-> score.evidence_urls]

CountAll(opps, min_score) == Len(opps)

\* line 293
CountBelowThreshold(opps, min_score) ==
    LET below(o) == o.opportunity_score < min_score
    IN  Len(Filter(opps, below))

KeepAll(opps, min_score) == opps

\* line 294
KeepAtLeast(opps, min_score) ==
    LET keep(o) == o.opportunity_score >= min_score
    IN  Filter(opps, keep)

\* lines 348-357: a record with primary_keyword = keyword.lower() and
\* created_at >= now - lookback_days
RecentKeywordMatch(db, keyword, lookback_days) ==
    \E r \in db.opportunities :
        r.primary_keyword = Lower(keyword) /\ r.age_days <= lookback_days

\* PostgreSQL ILIKE, reached through .ilike(column, pattern): the pattern
\* must match the whole text, "%" stands for any run of characters, "_" for
\* any one character, and letters match without regard to case
RECURSIVE ILikeFrom(_, _)
ILikeFrom(pattern, text) ==
    IF pattern = <<>> THEN text = <<>>
    ELSE IF Head(pattern) = "%"
    THEN ILikeFrom(Tail(pattern), text) \/ (text # <<>> /\ ILikeFrom(pattern, Tail(text)))
    ELSE /\ text # <<>>
         /\ Head(pattern) = "_" \/ LowerChar(Head(pattern)) = LowerChar(Head(text))
         /\ ILikeFrom(Tail(pattern), Tail(text))

ILike(text, pattern) == ILikeFrom(pattern, text)

\* lines 360-368: .ilike("title", f"%{keyword}%")
PublishedTitleMatch(db, keyword) ==
    \E title \in db.products : ILike(title, <<"%">> \o keyword \o <<"%">>)

IsDuplicateFailClosed(db, keyword, lookback_days, raised) ==
    IF raised THEN TRUE
    ELSE RecentKeywordMatch(db, keyword, lookback_days) \/ PublishedTitleMatch(db, keyword)

\* lines 342-374; `raised` is a lookup that throws
IsDuplicate(db, keyword, lookback_days, raised) ==
    IF raised THEN FALSE
    ELSE RecentKeywordMatch(db, keyword, lookback_days) \/ PublishedTitleMatch(db, keyword)

AppendUnsorted(sorted, o) == Append(sorted, o)

\* line 314: list.sort(key=score, reverse=True), which is stable
InsertByScore(sorted, o) ==
    LET k == Cardinality({ i \in 1..Len(sorted) :
                             sorted[i].opportunity_score >= o.opportunity_score })
    IN  SubSeq(sorted, 1, k) \o <<o>> \o SubSeq(sorted, k + 1, Len(sorted))

RECURSIVE SortByScore(_)
SortByScore(opps) ==
    IF opps = <<>> THEN <<>>
    ELSE InsertByScore(SortByScore(SubSeq(opps, 1, Len(opps) - 1)), opps[Len(opps)])

\* line 315
Truncate(opps, max_opportunities) == Slice(opps, max_opportunities)

SuccessWithoutErrorsOnly(opps, errs) == Len(errs) = 0

\* line 318
Success(opps, errs) == Len(opps) > 0 \/ Len(errs) = 0

EnrichmentErrorsRecorded(errs, trend_failed, competition_failed) ==
    errs \o (IF trend_failed THEN <<"Trends lookup failed">> ELSE <<>>)
         \o (IF competition_failed THEN <<"Gumroad lookup failed">> ELSE <<>>)

\* lines 234-256: a trend or competition lookup that fails is logged and
\* nothing is appended to errors
EnrichmentErrors(errs, trend_failed, competition_failed) == errs

\* lines 317-326
DiscoveryResult(cfg, opps, errs, all_x, all_reddit, dups, below) ==
    [success                  |-> Success(opps, errs),
     topics_searched          |-> cfg.topics,
     opportunities            |-> opps,
     total_x_signals          |-> Len(all_x),
     total_reddit_signals     |-> Len(all_reddit),
     duplicates_filtered      |-> dups,
     below_threshold_filtered |-> below,
     errors                   |-> errs]

(***************************************************************************)
(* Inputs of the competition analysis.                                     *)
(***************************************************************************)
MaxListings == 8

ListingKinds ==
    { GumroadProduct(NoNumber, NoNumber, NoNumber),   \* scraped by the regex fallback
      GumroadProduct(48, 0, 900),                     \* rated, no review
      GumroadProduct(NoNumber, 5, 1500),              \* reviews, no average
      GumroadProduct(0, 2, NoNumber),                 \* reviewed, zero stars
      GumroadProduct(30, 4, 500),
      GumroadProduct(35, 1, 1900),
      GumroadProduct(40, 7, 1200),
      GumroadProduct(45, 3, 2900),
      GumroadProduct(48, 12, 1500) }

ListingLists ==
    { Rep(a, i) \o Rep(b, j) :
        <<a, b, i, j>> \in { q \in ListingKinds \X ListingKinds \X (0..MaxListings) \X (0..MaxListings) :
                               q[3] + q[4] <= MaxListings } }

CompKeyword == <<"s", "e", "o">>

(***************************************************************************)
(* Inputs of score_unified_signals.                                        *)
(***************************************************************************)
MaxTags == 2

TopicSeo == <<"s", "e", "o">>

TextSeoTips == <<"S", "E", "O", " ", "t", "i", "p", "s">>

XCounts == {0, 1, 2, 5, 10, 20}

RedditCounts == {0, 2, 5, 10}

\* (post_score, comment_count): weighted engagement 0, 40 and 50 a post
RedditEngagements == {<<0, 0>>, <<20, 10>>, <<30, 10>>}

TrendScores == {0, 30, 50, 70, 100}

ScoreXLists ==
    { Rep(XSignal(TextSeoTips, "https://x.com/u/status/1", Rep("slow", p), Rep("paying", b)), n) :
        <<n, p, b>> \in XCounts \X (0..MaxTags) \X (0..MaxTags) }

ScoreRedditLists ==
    { Rep(RedditSignal(TextSeoTips, "https://reddit.com/r/seo/1", e[1], e[2],
                       Rep("stuck on", k), Rep("looking for", k)), n) :
        <<n, e, k>> \in RedditCounts \X RedditEngagements \X (0..MaxTags) }

\* what search_competitors can hand to the scorer: one summary of each level
CompetitionSummaries ==
    { AnalyzeCompetition(TopicSeo, l) :
        l \in { <<>>,
                Rep(GumroadProduct(30, 4, 500), 2),
                Rep(GumroadProduct(NoNumber, NoNumber, NoNumber), 8),
                Rep(GumroadProduct(NoNumber, NoNumber, NoNumber), 4),
                Rep(GumroadProduct(48, 12, 1500), 2) } }
    \cup {UnknownCompetition(TopicSeo)}

ScoreArgs ==
    [x_signals : ScoreXLists, reddit_signals : ScoreRedditLists,
     trend_score : TrendScores, primary_keyword : {TopicSeo},
     competition_data : CompetitionSummaries \cup {None}]

(***************************************************************************)
(* Inputs of _infer_product_type_unified and of _suggest_price.            *)
(***************************************************************************)
MaxInferSignals == 2

TextAiPromptTemplate ==
    <<"A","I"," ","p","r","o","m","p","t"," ","t","e","m","p","l","a","t","e">>

TextTemplate == <<"T","e","m","p","l","a","t","e">>

TextGuide == <<"g","u","i","d","e">>

TextChecklist == <<"c","h","e","c","k","l","i","s","t">>

TextRoadmapPlan == <<"r","o","a","d","m","a","p"," ","p","l","a","n">>

InferTexts == {TextAiPromptTemplate, TextTemplate, TextGuide, TextChecklist,
               TextRoadmapPlan, TextSeoTips}

SeqsUpTo(S, n) == UNION { [1..k -> S] : k \in 0..n }

InferXLists == SeqsUpTo({ XSignal(t, "", <<>>, <<>>) : t \in InferTexts }, MaxInferSignals)

\* Reddit signals with their questions: none, or one that names a spreadsheet
InferRedditLists ==
    SeqsUpTo({ [post_title |-> t, questions |-> q] :
                 t \in InferTexts, q \in {<<>>, << <<"s","p","r","e","a","d","s","h","e","e","t">> >>} },
             MaxInferSignals - 1)

InferArgs == [x_signals : InferXLists, reddit_signals : InferRedditLists]

PriceTypes == {"prompt_pack", "guide", "template_pack", "checklist", "roadmap", "ebook"}

\* opportunity_score is in 0..100
PriceScores == 0..100

PriceArgs == [product_type : PriceTypes, score : PriceScores]

(***************************************************************************)
(* Inputs of run_discovery.                                                *)
(***************************************************************************)
MaxTopics == 2

TopicAiTools == <<"A", "I", " ", "t", "o", "o", "l", "s">>
TopicAi == <<"a", "i">>

TextAiToolsHelp == <<"A", "I", " ", "T", "o", "o", "l", "s", " ", "h", "e", "l", "p">>
TextNeedHelp == <<"n", "e", "e", "d", " ", "h", "e", "l", "p">>

\* a topic written with an underscore, and a post title that holds it
TopicSeoTips == <<"s", "e", "o", "_", "t", "i", "p", "s">>
TextSeoTipsJoined == <<"s", "e", "o", "_", "t", "i", "p", "s">>

TopicOrder == <<TopicAiTools, TopicSeo, TopicAi>>

TopicLists == { SubSeq(TopicOrder, 1, n) : n \in 0..Min2(MaxTopics, Len(TopicOrder)) }

MinScores == {10, 50}

MaxOpportunities == {0, 1, 10}

Configs ==
    [topics : TopicLists, min_score : MinScores, max_opportunities : MaxOpportunities,
     check_duplicates : BOOLEAN, duplicate_lookback_days : {90}, use_trends : BOOLEAN]

XsTools == Rep(XSignal(TextAiToolsHelp, "https://x.com/a/status/1", <<"slow">>, <<"paying">>), 10)

XsSeo == Rep(XSignal(TextSeoTips, "https://x.com/b/status/2", <<>>, <<"paying">>), 2)
         \o <<XSignal(TextNeedHelp, "", <<>>, <<>>)>>

\* what search_x can return
XResults == {<<>>, XsSeo, XsTools \o XsSeo}

\* what the Reddit search for a topic returns when it finds posts
RedditPosts(topic) ==
    IF topic = TopicSeo
    THEN Rep(RedditSignal(TextSeoTips, "https://reddit.com/r/seo/1", 30, 10,
                          <<"stuck on">>, <<"looking for">>), 5)
    ELSE IF topic = TopicAiTools
    THEN Rep(RedditSignal(TextAiToolsHelp, "https://reddit.com/r/ai/2", 20, 10,
                          <<"frustrated">>, <<"tool for">>), 2)
    ELSE IF topic = TopicSeoTips
    THEN Rep(RedditSignal(TextSeoTipsJoined, "https://reddit.com/r/seo/4", 30, 10,
                          <<"stuck on">>, <<"looking for">>), 5)
    ELSE <<RedditSignal(TextNeedHelp, "https://reddit.com/r/all/3", 1, 0, <<>>, <<>>)>>

\* interest_score values analyze_keyword returns
RunTrendScores == {0, 75}

\* what search_competitors returns for a topic: the default of a failed
\* fetch, or the analysis of the listings found
RunCompetition(topic) ==
    { UnknownCompetition(topic),
      AnalyzeCompetition(topic, Rep(GumroadProduct(NoNumber, NoNumber, NoNumber), 8)) }

EmptyStore == [opportunities |-> {}, products |-> {}]

SeoStore == [opportunities |-> {[primary_keyword |-> TopicSeo, age_days |-> 10]},
             products |-> {}]

Stores == {EmptyStore, SeoStore}

\* stores of the duplicate lookups: a record of the keyword at each age, a
\* record in another case, and a published product
RecordAges == {10, 90, 91}

DupStores ==
    {EmptyStore}
    \cup { [opportunities |-> {[primary_keyword |-> TopicSeo, age_days |-> a]},
            products |-> {}] : a \in RecordAges }
    \cup { [opportunities |-> {[primary_keyword |-> <<"S", "E", "O">>, age_days |-> 10]},
            products |-> {}],
           [opportunities |-> {}, products |-> {TextSeoTips}],
           [opportunities |-> {[primary_keyword |-> TopicSeoTips, age_days |-> 91]},
            products |-> {TextSeoTips}] }

DupConfigs ==
    [topics : {<<TopicSeo>>, <<TopicSeoTips>>, <<TopicSeo, TopicSeoTips>>},
     min_score : {10}, max_opportunities : {10}, check_duplicates : BOOLEAN,
     duplicate_lookback_days : {90}, use_trends : {FALSE}]

\* Reading self.reddit_scout.is_configured (discovery_aggregator.py:188).  The
\* RedditScout of reddit_scout.py:110-121 defines no such attribute, so with
\* that class the read raises AttributeError; "True" and "False" are the two
\* values the aggregator's branches are written for.
RedditIsConfiguredOutcomes == {"AttributeError", "True", "False"}

(***************************************************************************)
(* gumroad_scout.py: search_competitors and its cache.                     *)
(***************************************************************************)
CACHE_DURATION_HOURS == 24

MaxGumCalls == 2

MaxGumClock == 48

\* str.strip() of the blanks at both ends
RECURSIVE Strip(_)
Strip(t) ==
    IF t = <<>> THEN t
    ELSE IF Head(t) = " " THEN Strip(Tail(t))
    ELSE IF t[Len(t)] = " " THEN Strip(SubSeq(t, 1, Len(t) - 1))
    ELSE t

\* line 89: cache_key = keyword.lower().strip()
CacheKey(keyword) == Strip(Lower(keyword))

\* CompetitionData.scraped_at = datetime.utcnow() when the object is built
Stamp(data, now) ==
    [f \in DOMAIN data \cup {"scraped_at"} |-> IF f = "scraped_at" THEN now ELSE data[f]]

CacheFreshInclusive(cache, key, use_cache, now) ==
    /\ use_cache
    /\ cache[key] # None
    /\ now - cache[key].scraped_at <= CACHE_DURATION_HOURS

\* lines 92-97: the cache is used, holds the key, and the entry is younger
\* than CACHE_DURATION_HOURS
CacheFresh(cache, key, use_cache, now) ==
    /\ use_cache
    /\ cache[key] # None
    /\ now - cache[key].scraped_at < CACHE_DURATION_HOURS

GumKeywords == {TopicSeo, <<"S", "E", "O", " ">>, TopicAi}

GumKeys == { CacheKey(k) : k \in GumKeywords }

GumListings == { <<>>,
                 Rep(GumroadProduct(48, 12, 1500), 2),
                 Rep(GumroadProduct(NoNumber, NoNumber, NoNumber), 8) }

\* hours that pass between two calls
GumSteps == {23, 24}

\* a scout just constructed (lines 69-70)
GumIdle == /\ gum_listings = <<>>
           /\ gum_cache = [k \in GumKeys |-> None]
           /\ gum_now = 0
           /\ gum_calls = <<>>

(***************************************************************************)
(* trends_scout.py: analyze_keyword, its cache and its cool-down.          *)
(***************************************************************************)
PYTRENDS_TIMEOUT_SECONDS == 10

CACHE_HOURS == 6

RATE_LIMIT_SECONDS == 60

MaxTrendCalls == 3

\* TrendData, with the fields analyze_keyword fills when full_analysis is off
TrendData(keyword, interest_score, interest_over_time, region, timeframe) ==
    [keyword |-> keyword, interest_score |-> interest_score,
     interest_over_time |-> interest_over_time, region |-> region,
     timeframe |-> timeframe]

\* TrendData(keyword=keyword, region=geo, timeframe=timeframe)
DefaultTrendData(keyword, geo, timeframe) == TrendData(keyword, 0, <<>>, geo, timeframe)

\* line 317: cache_key = f"{keyword.lower()}:{geo}:{timeframe}"
TrendCacheKey(keyword, geo, timeframe) == <<Lower(keyword), geo, timeframe>>

TrendCacheFreshInclusive(cache, key, now) ==
    /\ cache[key] # None
    /\ now - cache[key].time <= CACHE_HOURS * 3600

\* lines 320-325: the key is cached and (now - cached_time) / 3600 < CACHE_HOURS
TrendCacheFresh(cache, key, now) ==
    /\ cache[key] # None
    /\ now - cache[key].time < CACHE_HOURS * 3600

RateLimitedNever(until, now) == now + RATE_LIMIT_SECONDS < until

\* line 328
RateLimited(until, now) == now < until

GetInterestOverTimeLeaky(upstream) ==
    IF upstream.kind = "timeout" THEN <<80>> ELSE upstream.series

\* lines 183-195: what get_interest_over_time hands back for the keyword: the
\* series of the upstream answer, or [] when the call timed out or raised
GetInterestOverTime(upstream) ==
    IF upstream.kind = "answer" THEN upstream.series ELSE <<>>

\* lines 350-354 and 366: int(sum(values) / len(values)), 0 for no value
InterestScore(interest_list) ==
    IF interest_list = <<>> THEN 0 ELSE SumSeq(interest_list) \div Len(interest_list)

\* seconds analyze_keyword waits for the upstream call: future.result gives
\* up after PYTRENDS_TIMEOUT_SECONDS (line 190)
UpstreamSeconds(upstream) ==
    IF upstream.kind = "timeout" THEN PYTRENDS_TIMEOUT_SECONDS ELSE 0

\* how the upstream call can end
TrendUpstream ==
    { [kind |-> "answer", series |-> <<80, 71>>],
      [kind |-> "answer", series |-> <<>>],
      [kind |-> "raises", series |-> <<>>],
      [kind |-> "timeout", series |-> <<>>] }

TrendKeywords == {TopicSeo, TopicAi}

TrendGeo == "US"

TrendTimeframe == "today 3-m"

TrendKeys == { TrendCacheKey(k, TrendGeo, TrendTimeframe) : k \in TrendKeywords }

\* seconds between one call and the next: 59 s, 60 s, 5 h 59 min, 6 h
TrendWaits == {59, 60, 21540, 21600}

\* the first call is made at the time the clock starts from
TrendWaitsAfter(calls) == IF calls = <<>> THEN {0} ELSE TrendWaits

\* line 92: ThreadPoolExecutor(max_workers=1)
MAX_WORKERS == 1

WorkerFreeAlways(executing) == TRUE

\* the executor hands a request to a worker only while fewer than max_workers
\* requests are running
WorkerFree(executing) == executing < MAX_WORKERS

\* self._executor.submit(...): the request starts at once on a free worker,
\* otherwise it waits in the queue
Submit(executing, pending) ==
    IF WorkerFree(executing) /\ pending = 0
    THEN [executing |-> executing + 1, pending |-> pending]
    ELSE [executing |-> executing, pending |-> pending + 1]

\* lines 96-122: is_available
IsAvailable(enabled, pytrends) == enabled /\ pytrends

\* a scout just constructed (lines 89-94)
TrendsConstructed == /\ trend_enabled = TRUE
                     /\ trend_cache = [k \in TrendKeys |-> None]
                     /\ trend_rate_limit_until = 0
                     /\ trend_now = 0
                     /\ trend_calls = <<>>
                     /\ trend_executing = 0
                     /\ trend_pending = 0

TrendsIdle == TrendsConstructed /\ trend_pytrends = TRUE

(***************************************************************************)
(* Initial states.                                                         *)
(***************************************************************************)
AnalysisIdle == /\ products = <<>>
                /\ competition_data = None

\* no call of a helper of the scorer
HelperIdle == /\ infer_args = None
              /\ infer_result = None
              /\ price_args = None
              /\ price_result = None

ScoreIdle == /\ score_args = None
             /\ score_result = None
             /\ HelperIdle

\* no call of run_discovery yet
CallIdle == /\ pc = "idle"
            /\ config = None
            /\ errors = <<>>
            /\ all_x_signals = <<>>
            /\ all_reddit_signals = <<>>
            /\ reddit_i = 1
            /\ topic_i = 1
            /\ opportunities = <<>>
            /\ below_threshold = 0
            /\ duplicates_filtered = 0
            /\ filtered_opportunities = <<>>
            /\ dup_i = 1
            /\ result = None
            /\ x_call = "none"
            /\ enrichment = <<>>
            /\ built = <<>>
            /\ dup_checked = <<>>
            /\ before_truncation = <<>>

AggregatorIdle == /\ x_api_key = FALSE
                  /\ reddit_is_configured = "False"
                  /\ trends_is_available = FALSE
                  /\ store = EmptyStore
                  /\ CallIdle

InitComp == /\ products \in ListingLists
            /\ competition_data = None
            /\ ScoreIdle
            /\ AggregatorIdle
            /\ GumIdle
            /\ TrendsIdle

InitScore == /\ score_args \in ScoreArgs
             /\ score_result = None
             /\ HelperIdle
             /\ AnalysisIdle
             /\ AggregatorIdle
             /\ GumIdle
             /\ TrendsIdle

InitInfer == /\ infer_args \in InferArgs
             /\ infer_result = None
             /\ price_args = None
             /\ price_result = None
             /\ score_args = None
             /\ score_result = None
             /\ AnalysisIdle
             /\ AggregatorIdle
             /\ GumIdle
             /\ TrendsIdle

InitPrice == /\ price_args \in PriceArgs
             /\ price_result = None
             /\ infer_args = None
             /\ infer_result = None
             /\ score_args = None
             /\ score_result = None
             /\ AnalysisIdle
             /\ AggregatorIdle
             /\ GumIdle
             /\ TrendsIdle

\* a constructed DiscoveryAggregator (lines 141-147)
Init == /\ x_api_key \in BOOLEAN
        /\ reddit_is_configured \in RedditIsConfiguredOutcomes
        /\ trends_is_available \in BOOLEAN
        /\ store \in Stores
        /\ CallIdle
        /\ AnalysisIdle
        /\ ScoreIdle
        /\ GumIdle
        /\ TrendsIdle

\* an aggregator without the X key, with a Reddit adapter that reports
\* is_configured, and with the stores of the duplicate lookups
InitDup == /\ x_api_key = FALSE
           /\ reddit_is_configured = "True"
           /\ trends_is_available = FALSE
           /\ store \in DupStores
           /\ CallIdle
           /\ AnalysisIdle
           /\ ScoreIdle
           /\ GumIdle
           /\ TrendsIdle

\* a scout just constructed, and what the marketplace lists
InitGum == /\ gum_listings \in GumListings
           /\ gum_cache = [k \in GumKeys |-> None]
           /\ gum_now = 0
           /\ gum_calls = <<>>
           /\ AnalysisIdle
           /\ ScoreIdle
           /\ AggregatorIdle
           /\ TrendsIdle

\* a scout just constructed, with or without a usable pytrends
InitTrends == /\ TrendsConstructed
              /\ trend_pytrends \in BOOLEAN
              /\ trends_is_available = FALSE
              /\ x_api_key = FALSE
              /\ reddit_is_configured = "False"
              /\ store = EmptyStore
              /\ CallIdle
              /\ AnalysisIdle
              /\ ScoreIdle
              /\ GumIdle

analysis_vars == <<products, competition_data>>
helper_vars == <<infer_args, infer_result, price_args, price_result>>
score_vars == <<score_args, score_result, helper_vars>>
gum_vars == <<gum_listings, gum_cache, gum_now, gum_calls>>
executor_vars == <<trend_executing, trend_pending>>
trend_vars == <<trend_enabled, trend_pytrends, trend_cache, trend_rate_limit_until, trend_now,
                trend_calls, executor_vars>>
env_vars == <<x_api_key, reddit_is_configured, trends_is_available, store, gum_vars, trend_vars>>
aggregator_vars == <<x_api_key, reddit_is_configured, trends_is_available, store>>
call_vars == <<pc, config, errors, all_x_signals, all_reddit_signals, reddit_i, topic_i,
               opportunities, below_threshold, duplicates_filtered,
               filtered_opportunities, dup_i, result>>
history_vars == <<x_call, enrichment, built, dup_checked, before_truncation>>

vars == <<analysis_vars, score_vars, env_vars, call_vars, history_vars>>

(***************************************************************************)
(* Actions.                                                                *)
(***************************************************************************)
\* one call of _analyze_competition(keyword, products)
Analyze == /\ competition_data = None
           /\ competition_data' = AnalyzeCompetition(CompKeyword, products)
           /\ UNCHANGED <<products, score_vars, env_vars, call_vars, history_vars>>

\* one call of score_unified_signals
Score == /\ score_args # None
         /\ score_result = None
         /\ score_result' = ScoreUnifiedSignals(score_args.x_signals, score_args.reddit_signals,
                                                score_args.trend_score, score_args.primary_keyword,
                                                score_args.competition_data)
         /\ UNCHANGED <<score_args, helper_vars, analysis_vars, env_vars, call_vars,
                        history_vars>>

\* one call of _infer_product_type_unified(x_signals, reddit_signals)
Infer == /\ infer_args # None
         /\ infer_result = None
         /\ infer_result' = [product_type |->
                                 InferProductTypeUnified(infer_args.x_signals,
                                                         infer_args.reddit_signals)]
         /\ UNCHANGED <<infer_args, price_args, price_result, score_args, score_result,
                        analysis_vars, env_vars, call_vars, history_vars>>

\* one call of _suggest_price(product_type, score)
Suggest == /\ price_args # None
           /\ price_result = None
           /\ price_result' = [price_cents |->
                                   SuggestPrice(price_args.product_type, price_args.score)]
           /\ UNCHANGED <<price_args, infer_args, infer_result, score_args, score_result,
                          analysis_vars, env_vars, call_vars, history_vars>>

\* run_discovery(config) is called (lines 164-167)
RunDiscovery(cfg) ==
    /\ pc = "idle"
    /\ config' = cfg
    /\ pc' = "x"
    /\ UNCHANGED <<errors, all_x_signals, all_reddit_signals, reddit_i, topic_i, opportunities,
                   below_threshold, duplicates_filtered, filtered_opportunities, dup_i, result>>
    /\ UNCHANGED <<analysis_vars, score_vars, env_vars, history_vars>>

\* lines 170-179.  search_x returns [] when its calls fail (x_scout.py:185-187,
\* 296-302), so the handler of lines 180-182 never runs.
SearchX ==
    /\ pc = "x"
    /\ x_api_key
    /\ \E failed \in BOOLEAN : \E r \in XResults :
          /\ failed => r = <<>>
          /\ all_x_signals' = r
          /\ x_call' = IF failed THEN "failed" ELSE "ok"
    /\ pc' = "reddit"
    /\ UNCHANGED <<config, errors, all_reddit_signals, reddit_i, topic_i, opportunities,
                   below_threshold, duplicates_filtered, filtered_opportunities, dup_i, result>>
    /\ UNCHANGED <<analysis_vars, score_vars, env_vars, enrichment, built, dup_checked,
                   before_truncation>>

\* lines 183-185
XNotConfigured ==
    /\ pc = "x"
    /\ ~x_api_key
    /\ errors' = Append(errors, "X/Grok not configured (XAI_API_KEY missing)")
    /\ x_call' = "unconfigured"
    /\ pc' = "reddit"
    /\ UNCHANGED <<config, all_x_signals, all_reddit_signals, reddit_i, topic_i, opportunities,
                   below_threshold, duplicates_filtered, filtered_opportunities, dup_i, result>>
    /\ UNCHANGED <<analysis_vars, score_vars, env_vars, enrichment, built, dup_checked,
                   before_truncation>>

\* line 188 with the RedditScout of reddit_scout.py: the attribute read
\* raises outside every try, and run_discovery ends with the exception
RedditAttributeError ==
    /\ pc = "reddit"
    /\ reddit_is_configured = "AttributeError"
    /\ pc' = "raised"
    /\ UNCHANGED <<config, errors, all_x_signals, all_reddit_signals, reddit_i, topic_i,
                   opportunities, below_threshold, duplicates_filtered,
                   filtered_opportunities, dup_i, result>>
    /\ UNCHANGED <<analysis_vars, score_vars, env_vars, history_vars>>

\* lines 202-203: nothing is appended to errors
RedditNotConfigured ==
    /\ pc = "reddit"
    /\ reddit_is_configured = "False"
    /\ pc' = "topics"
    /\ UNCHANGED <<config, errors, all_x_signals, all_reddit_signals, reddit_i, topic_i,
                   opportunities, below_threshold, duplicates_filtered,
                   filtered_opportunities, dup_i, result>>
    /\ UNCHANGED <<analysis_vars, score_vars, env_vars, history_vars>>

RedditTopics == Slice(config.topics, 3)

\* lines 191-197: one search of the loop returns
SearchReddit ==
    /\ pc = "reddit"
    /\ reddit_is_configured = "True"
    /\ reddit_i <= Len(RedditTopics)
    /\ \E signals \in {<<>>, RedditPosts(RedditTopics[reddit_i])} :
          all_reddit_signals' = all_reddit_signals \o signals
    /\ reddit_i' = reddit_i + 1
    /\ UNCHANGED <<pc, config, errors, all_x_signals, topic_i, opportunities, below_threshold,
                   duplicates_filtered, filtered_opportunities, dup_i, result>>
    /\ UNCHANGED <<analysis_vars, score_vars, env_vars, history_vars>>

\* lines 199-201: one search of the loop raises; the signals of the earlier
\* searches stay in all_reddit_signals and the loop is left
SearchRedditRaises ==
    /\ pc = "reddit"
    /\ reddit_is_configured = "True"
    /\ reddit_i <= Len(RedditTopics)
    /\ errors' = Append(errors, "Reddit search skipped: error")
    /\ pc' = "topics"
    /\ UNCHANGED <<config, all_x_signals, all_reddit_signals, reddit_i, topic_i, opportunities,
                   below_threshold, duplicates_filtered, filtered_opportunities, dup_i, result>>
    /\ UNCHANGED <<analysis_vars, score_vars, env_vars, history_vars>>

\* the loop of line 191 ends
RedditDone ==
    /\ pc = "reddit"
    /\ reddit_is_configured = "True"
    /\ reddit_i > Len(RedditTopics)
    /\ pc' = "topics"
    /\ UNCHANGED <<config, errors, all_x_signals, all_reddit_signals, reddit_i, topic_i,
                   opportunities, below_threshold, duplicates_filtered,
                   filtered_opportunities, dup_i, result>>
    /\ UNCHANGED <<analysis_vars, score_vars, env_vars, history_vars>>

\* lines 231-232: a topic with no associated signal is passed over
SkipTopic ==
    /\ pc = "topics"
    /\ topic_i <= Len(config.topics)
    /\ TopicXSignals(all_x_signals, config.topics[topic_i]) = <<>>
    /\ TopicRedditSignals(all_reddit_signals, config.topics[topic_i]) = <<>>
    /\ topic_i' = topic_i + 1
    /\ UNCHANGED <<pc, config, errors, all_x_signals, all_reddit_signals, reddit_i,
                   opportunities, below_threshold, duplicates_filtered,
                   filtered_opportunities, dup_i, result>>
    /\ UNCHANGED <<analysis_vars, score_vars, env_vars, history_vars>>

\* lines 236-245: analyze_keyword is called only with use_trends on and the
\* scout available; a raised exception leaves trend_score at 0
TrendOutcomes == IF config.use_trends /\ trends_is_available THEN RunTrendScores ELSE {0}

\* the trend lookup was made and gave what a failed lookup gives
TrendFailed(cfg, available, trend_score) == cfg.use_trends /\ available /\ trend_score = 0

\* search_competitors gave the summary of a failed fetch
CompetitionFailed(comp) == comp.competition_level = "unknown"

\* lines 210-290: one topic is associated, enriched, scored and appended
ScoreTopic ==
    /\ pc = "topics"
    /\ topic_i <= Len(config.topics)
    /\ LET topic == config.topics[topic_i]
           topic_x_signals == TopicXSignals(all_x_signals, topic)
           topic_reddit_signals == TopicRedditSignals(all_reddit_signals, topic)
       IN  /\ ~(topic_x_signals = <<>> /\ topic_reddit_signals = <<>>)
           /\ \E trend_score \in TrendOutcomes : \E comp \in RunCompetition(topic) :
                LET opportunity == BuildOpportunity(topic, topic_x_signals,
                                                    topic_reddit_signals, trend_score, comp)
                IN  /\ opportunities' = Append(opportunities, opportunity)
                    /\ built' = Append(built, opportunity)
                    /\ enrichment' = Append(enrichment,
                                            [topic |-> topic, trend_score |-> trend_score,
                                             competition_data |-> comp])
                    /\ errors' = EnrichmentErrors(
                                     errors,
                                     TrendFailed(config, trends_is_available, trend_score),
                                     CompetitionFailed(comp))
    /\ topic_i' = topic_i + 1
    /\ UNCHANGED <<pc, config, all_x_signals, all_reddit_signals, reddit_i,
                   below_threshold, duplicates_filtered, filtered_opportunities, dup_i, result>>
    /\ UNCHANGED <<analysis_vars, score_vars, env_vars, x_call, dup_checked, before_truncation>>

\* lines 292-298: the threshold, then the choice of line 298
FilterByMinScore ==
    /\ pc = "topics"
    /\ topic_i > Len(config.topics)
    /\ below_threshold' = CountBelowThreshold(opportunities, config.min_score)
    /\ opportunities' = KeepAtLeast(opportunities, config.min_score)
    /\ pc' = IF config.check_duplicates THEN "dups" ELSE "sort"
    /\ UNCHANGED <<config, errors, all_x_signals, all_reddit_signals, reddit_i, topic_i,
                   duplicates_filtered, filtered_opportunities, dup_i, result>>
    /\ UNCHANGED <<analysis_vars, score_vars, env_vars, history_vars>>

\* lines 300-310: one _is_duplicate lookup of the loop, which may throw inside
CheckDuplicate ==
    /\ pc = "dups"
    /\ dup_i <= Len(opportunities)
    /\ \E raised \in BOOLEAN :
         LET opp == opportunities[dup_i]
             is_dup == IsDuplicate(store, opp.primary_keyword,
                                   config.duplicate_lookback_days, raised)
         IN  /\ duplicates_filtered' = IF is_dup THEN duplicates_filtered + 1
                                       ELSE duplicates_filtered
             /\ filtered_opportunities' = IF is_dup THEN filtered_opportunities
                                          ELSE Append(filtered_opportunities, opp)
             /\ dup_checked' = Append(dup_checked,
                                       [primary_keyword |-> opp.primary_keyword,
                                        raised |-> raised, is_duplicate |-> is_dup])
    /\ dup_i' = dup_i + 1
    /\ UNCHANGED <<pc, config, errors, all_x_signals, all_reddit_signals, reddit_i, topic_i,
                   opportunities, below_threshold, result>>
    /\ UNCHANGED <<analysis_vars, score_vars, env_vars, x_call, enrichment, built,
                   before_truncation>>

\* line 311
DuplicatesDone ==
    /\ pc = "dups"
    /\ dup_i > Len(opportunities)
    /\ opportunities' = filtered_opportunities
    /\ pc' = "sort"
    /\ UNCHANGED <<config, errors, all_x_signals, all_reddit_signals, reddit_i, topic_i,
                   below_threshold, duplicates_filtered, filtered_opportunities, dup_i, result>>
    /\ UNCHANGED <<analysis_vars, score_vars, env_vars, history_vars>>

\* lines 313-326
SortAndReturn ==
    /\ pc = "sort"
    /\ LET sorted == SortByScore(opportunities)
           kept == Truncate(sorted, config.max_opportunities)
       IN  /\ before_truncation' = opportunities
           /\ opportunities' = kept
           /\ result' = DiscoveryResult(config, kept, errors, all_x_signals,
                                        all_reddit_signals, duplicates_filtered,
                                        below_threshold)
    /\ pc' = "done"
    /\ UNCHANGED <<config, errors, all_x_signals, all_reddit_signals, reddit_i, topic_i,
                   below_threshold, duplicates_filtered, filtered_opportunities, dup_i>>
    /\ UNCHANGED <<analysis_vars, score_vars, env_vars, x_call, enrichment, built, dup_checked>>

GumCall(keyword, use_cache, path, summary) ==
    [keyword |-> keyword, use_cache |-> use_cache, at |-> gum_now, path |-> path,
     summary |-> summary]

\* lines 89-97: search_competitors(keyword, use_cache) answered from the cache
SearchCompetitorsCached(keyword, use_cache) ==
    /\ Len(gum_calls) < MaxGumCalls
    /\ CacheFresh(gum_cache, CacheKey(keyword), use_cache, gum_now)
    /\ gum_calls' = Append(gum_calls, GumCall(keyword, use_cache, "cache",
                                              gum_cache[CacheKey(keyword)]))
    /\ UNCHANGED <<gum_listings, gum_cache, gum_now>>
    /\ UNCHANGED <<analysis_vars, score_vars, aggregator_vars, trend_vars, call_vars,
                   history_vars>>

\* lines 99-105: the fetch returns; _fetch_products gives the parsed listings
\* of a 200 response and [] for any other status (lines 136-138), and the
\* analysis of either is cached
SearchCompetitorsFetched(keyword, use_cache, status_200) ==
    /\ Len(gum_calls) < MaxGumCalls
    /\ ~CacheFresh(gum_cache, CacheKey(keyword), use_cache, gum_now)
    /\ LET fetched == IF status_200 THEN gum_listings ELSE <<>>
           competition == Stamp(AnalyzeCompetition(keyword, fetched), gum_now)
       IN  /\ gum_cache' = [gum_cache EXCEPT ![CacheKey(keyword)] = competition]
           /\ gum_calls' = Append(gum_calls,
                                  GumCall(keyword, use_cache,
                                          IF status_200 THEN "fresh" ELSE "bad_status",
                                          competition))
    /\ UNCHANGED <<gum_listings, gum_now>>
    /\ UNCHANGED <<analysis_vars, score_vars, aggregator_vars, trend_vars, call_vars,
                   history_vars>>

\* lines 107-115: the fetch raises (connection error, timeout, parse error);
\* the default is returned and not cached
SearchCompetitorsFailed(keyword, use_cache) ==
    /\ Len(gum_calls) < MaxGumCalls
    /\ ~CacheFresh(gum_cache, CacheKey(keyword), use_cache, gum_now)
    /\ gum_calls' = Append(gum_calls,
                           GumCall(keyword, use_cache, "failed",
                                   Stamp(UnknownCompetition(keyword), gum_now)))
    /\ UNCHANGED <<gum_listings, gum_cache, gum_now>>
    /\ UNCHANGED <<analysis_vars, score_vars, aggregator_vars, trend_vars, call_vars,
                   history_vars>>

\* time passes between two calls
GumAdvance(hours) ==
    /\ gum_now + hours <= MaxGumClock
    /\ gum_now' = gum_now + hours
    /\ UNCHANGED <<gum_listings, gum_cache, gum_calls>>
    /\ UNCHANGED <<analysis_vars, score_vars, aggregator_vars, trend_vars, call_vars,
                   history_vars>>

TrendCall(keyword, at, returned_at, path, upstream, data) ==
    [keyword |-> keyword, at |-> at, returned_at |-> returned_at, path |-> path,
     upstream |-> upstream, data |-> data,
     available |-> IsAvailable(trend_enabled, trend_pytrends)]

\* lines 319-325: analyze_keyword(keyword), `wait` seconds after the last
\* call returned, answered from a cache entry younger than CACHE_HOURS
AnalyzeKeywordCached(keyword, wait) ==
    /\ Len(trend_calls) < MaxTrendCalls
    /\ LET now == trend_now + wait
           key == TrendCacheKey(keyword, TrendGeo, TrendTimeframe)
       IN  /\ TrendCacheFresh(trend_cache, key, now)
           /\ trend_now' = now
           /\ trend_calls' = Append(trend_calls,
                                    TrendCall(keyword, now, now, "cache", "none",
                                              trend_cache[key].data))
    /\ UNCHANGED <<trend_enabled, trend_pytrends, trend_cache, trend_rate_limit_until,
                   executor_vars>>
    /\ UNCHANGED <<analysis_vars, score_vars, aggregator_vars, gum_vars, call_vars,
                   history_vars>>

\* lines 327-334: during the cool-down the entry of the key, whatever its
\* age, or the default is returned
AnalyzeKeywordRateLimited(keyword, wait) ==
    /\ Len(trend_calls) < MaxTrendCalls
    /\ LET now == trend_now + wait
           key == TrendCacheKey(keyword, TrendGeo, TrendTimeframe)
       IN  /\ ~TrendCacheFresh(trend_cache, key, now)
           /\ RateLimited(trend_rate_limit_until, now)
           /\ trend_now' = now
           /\ trend_calls' = Append(trend_calls,
                 TrendCall(keyword, now, now, "cool-down", "none",
                           IF trend_cache[key] # None THEN trend_cache[key].data
                           ELSE DefaultTrendData(keyword, TrendGeo, TrendTimeframe)))
    /\ UNCHANGED <<trend_enabled, trend_pytrends, trend_cache, trend_rate_limit_until,
                   executor_vars>>
    /\ UNCHANGED <<analysis_vars, score_vars, aggregator_vars, gum_vars, call_vars,
                   history_vars>>

\* lines 336-338
AnalyzeKeywordUnavailable(keyword, wait) ==
    /\ Len(trend_calls) < MaxTrendCalls
    /\ LET now == trend_now + wait
           key == TrendCacheKey(keyword, TrendGeo, TrendTimeframe)
       IN  /\ ~TrendCacheFresh(trend_cache, key, now)
           /\ ~RateLimited(trend_rate_limit_until, now)
           /\ ~IsAvailable(trend_enabled, trend_pytrends)
           /\ trend_now' = now
           /\ trend_calls' = Append(trend_calls,
                 TrendCall(keyword, now, now, "unavailable", "none",
                           DefaultTrendData(keyword, TrendGeo, TrendTimeframe)))
    /\ UNCHANGED <<trend_enabled, trend_pytrends, trend_cache, trend_rate_limit_until,
                   executor_vars>>
    /\ UNCHANGED <<analysis_vars, score_vars, aggregator_vars, gum_vars, call_vars,
                   history_vars>>

\* lines 340-378: the upstream call is made; an empty list starts the
\* cool-down; the result, empty or not, is cached.  The request is submitted
\* to the executor (lines 186-190): when the wait times out the request stays
\* where the executor has it; an answer or an exception within the budget
\* means that the worker has run everything submitted so far.
AnalyzeKeywordFetched(keyword, wait, upstream) ==
    /\ Len(trend_calls) < MaxTrendCalls
    /\ LET now == trend_now + wait
           key == TrendCacheKey(keyword, TrendGeo, TrendTimeframe)
           interest_list == GetInterestOverTime(upstream)
           returned_at == now + UpstreamSeconds(upstream)
           data == TrendData(keyword, InterestScore(interest_list), interest_list,
                             TrendGeo, TrendTimeframe)
       IN  /\ ~TrendCacheFresh(trend_cache, key, now)
           /\ ~RateLimited(trend_rate_limit_until, now)
           /\ IsAvailable(trend_enabled, trend_pytrends)
           /\ trend_rate_limit_until' = IF interest_list = <<>>
                                        THEN returned_at + RATE_LIMIT_SECONDS
                                        ELSE trend_rate_limit_until
           /\ trend_cache' = [trend_cache EXCEPT ![key] = [data |-> data, time |-> returned_at]]
           /\ trend_now' = returned_at
           /\ trend_calls' = Append(trend_calls,
                                    TrendCall(keyword, now, returned_at, "fetch",
                                              upstream.kind, data))
           /\ LET submitted == Submit(trend_executing, trend_pending)
              IN  IF upstream.kind = "timeout"
                  THEN /\ trend_executing' = submitted.executing
                       /\ trend_pending' = submitted.pending
                  ELSE /\ trend_executing' = 0
                       /\ trend_pending' = 0
    /\ UNCHANGED <<trend_enabled, trend_pytrends>>
    /\ UNCHANGED <<analysis_vars, score_vars, aggregator_vars, gum_vars, call_vars,
                   history_vars>>

\* the worker thread of the executor ends the request it is running and
\* takes the next one of the queue
WorkerFinish ==
    /\ trend_executing > 0
    /\ IF trend_pending > 0
       THEN /\ trend_pending' = trend_pending - 1
            /\ trend_executing' = trend_executing
       ELSE /\ trend_pending' = 0
            /\ trend_executing' = trend_executing - 1
    /\ UNCHANGED <<trend_enabled, trend_pytrends, trend_cache, trend_rate_limit_until, trend_now,
                   trend_calls>>
    /\ UNCHANGED <<analysis_vars, score_vars, aggregator_vars, gum_vars, call_vars,
                   history_vars>>

\* lines 124-127: disable()
TrendsDisable ==
    /\ trend_enabled' = FALSE
    /\ UNCHANGED <<trend_pytrends, trend_cache, trend_rate_limit_until, trend_now, trend_calls,
                   executor_vars>>
    /\ UNCHANGED <<analysis_vars, score_vars, aggregator_vars, gum_vars, call_vars,
                   history_vars>>

\* lines 129-132: enable()
TrendsEnable ==
    /\ trend_enabled' = TRUE
    /\ UNCHANGED <<trend_pytrends, trend_cache, trend_rate_limit_until, trend_now, trend_calls,
                   executor_vars>>
    /\ UNCHANGED <<analysis_vars, score_vars, aggregator_vars, gum_vars, call_vars,
                   history_vars>>

(***************************************************************************)
(* Specifications.                                                         *)
(***************************************************************************)
NextInfer == Infer

SpecInfer == InitInfer /\ [][NextInfer]_vars

NextPrice == Suggest

SpecPrice == InitPrice /\ [][NextPrice]_vars

NextTrends ==
    \/ WorkerFinish
    \/ TrendsDisable
    \/ TrendsEnable
    \/ \E keyword \in TrendKeywords : \E wait \in TrendWaitsAfter(trend_calls) :
           \/ AnalyzeKeywordCached(keyword, wait)
           \/ AnalyzeKeywordRateLimited(keyword, wait)
           \/ AnalyzeKeywordUnavailable(keyword, wait)
           \/ \E upstream \in TrendUpstream : AnalyzeKeywordFetched(keyword, wait, upstream)

SpecTrends == InitTrends /\ [][NextTrends]_vars

NextGum ==
    \/ \E keyword \in GumKeywords : \E use_cache \in BOOLEAN :
          \/ SearchCompetitorsCached(keyword, use_cache)
          \/ \E status_200 \in BOOLEAN : SearchCompetitorsFetched(keyword, use_cache, status_200)
          \/ SearchCompetitorsFailed(keyword, use_cache)
    \/ \E hours \in GumSteps : GumAdvance(hours)

SpecGum == InitGum /\ [][NextGum]_vars

NextComp == Analyze

SpecComp == InitComp /\ [][NextComp]_vars

NextScore == Score

SpecScore == InitScore /\ [][NextScore]_vars

Next ==
    \/ \E cfg \in Configs : RunDiscovery(cfg)
    \/ SearchX
    \/ XNotConfigured
    \/ RedditAttributeError
    \/ RedditNotConfigured
    \/ SearchReddit
    \/ SearchRedditRaises
    \/ RedditDone
    \/ SkipTopic
    \/ ScoreTopic
    \/ FilterByMinScore
    \/ CheckDuplicate
    \/ DuplicatesDone
    \/ SortAndReturn

Spec == Init /\ [][Next]_vars

\* run_discovery from InitDup: the steps that such an aggregator can take
NextDup ==
    \/ \E cfg \in DupConfigs : RunDiscovery(cfg)
    \/ XNotConfigured
    \/ SearchReddit
    \/ SearchRedditRaises
    \/ RedditDone
    \/ SkipTopic
    \/ ScoreTopic
    \/ FilterByMinScore
    \/ CheckDuplicate
    \/ DuplicatesDone
    \/ SortAndReturn

SpecDup == InitDup /\ [][NextDup]_vars

(***************************************************************************)
(* C1: the ranges of the sub-scores and of the total.                      *)
(***************************************************************************)
ScoreCallEmpty == score_args.x_signals = <<>> /\ score_args.reddit_signals = <<>>

ScoreRanges(r) == /\ 0 <= r.demand_score /\ r.demand_score <= 50
                  /\ 0 <= r.intent_score /\ r.intent_score <= 40
                  /\ 0 <= r.opportunity_score /\ r.opportunity_score <= 100

ClampedSum(o) ==
    LET sum == o.demand_score + o.intent_score + o.competition_penalty
    IN  IF sum < 0 THEN 0 ELSE IF sum > 100 THEN 100 ELSE sum

\* C2: every opportunity built from a result of score_unified_signals, and
\* every opportunity run_discovery returns, has opportunity_score equal to
\* max(0, min(demand_score + intent_score + competition_penalty, 100)) of the
\* sub-scores in the same record.
C2_ClampedSum ==
    /\ \A i \in 1..Len(built) : built[i].opportunity_score = ClampedSum(built[i])
    /\ result # None =>
         \A i \in 1..Len(result.opportunities) :
            result.opportunities[i].opportunity_score = ClampedSum(result.opportunities[i])

\* a finished run that returns an opportunity with the largest penalty and
\* scored another one whose plain sum is negative, so the lower clamp acts
C2_Witness ==
    /\ result # None
    /\ \E i \in 1..Len(result.opportunities) :
          /\ result.opportunities[i].competition_penalty = -20
          /\ result.opportunities[i].opportunity_score > 0
    /\ \E i \in 1..Len(built) :
          built[i].demand_score + built[i].intent_score + built[i].competition_penalty < 0

(***************************************************************************)
(* C3  _analyze_competition: first matching rule, in the stated order.     *)
(***************************************************************************)
\* The rule table of the claim, stated on the listings themselves: count is
\* the number of all listings; the mean is taken over the ratings of the
\* listings with review_count > 0 (sum and number, compared by cross
\* multiplication: mean < 3.5 is 10*sum < 35*n in tenths of a star).
C3_Reviewed(ps) == { i \in 1..Len(ps) : ps[i].review_count > 0 /\ ps[i].rating # NoNumber }

RECURSIVE C3_Sum(_, _)
C3_Sum(ps, I) == IF I = {} THEN 0
                 ELSE LET i == CHOOSE k \in I : TRUE IN ps[i].rating + C3_Sum(ps, I \ {i})

C3_Rule(ps) ==
    LET count == Len(ps)
        n     == Cardinality(C3_Reviewed(ps))
        sum   == C3_Sum(ps, C3_Reviewed(ps))
        rated == n > 0
    IN  CASE count = 0                                    -> <<"none", -10>>
          [] count # 0 /\ rated /\ sum < 35 * n           -> <<"low_quality", -3>>
          [] count # 0 /\ ~(rated /\ sum < 35 * n)
             /\ (count >= 8 \/ (count >= 4 /\ rated /\ sum > 45 * n))
                                                          -> <<"saturated", -20>>
          [] count # 0 /\ ~(rated /\ sum < 35 * n)
             /\ ~(count >= 8 \/ (count >= 4 /\ rated /\ sum > 45 * n))
             /\ count >= 4                                -> <<"high", -10>>
          [] OTHER                                        -> <<"validated", -5>>

\* C3: for every list of listings the analysis returns the level and penalty
\* of the first matching rule (none, low_quality, saturated, high, validated,
\* in that order), product_count counts every listing, and the two examples
\* hold: 8 unreviewed listings are saturated/-20, 3 reviewed listings rated
\* 4.8 are validated/-5.
C3_FirstMatchingRule ==
    competition_data # None =>
        /\ <<competition_data.competition_level, competition_data.competition_penalty>>
               = C3_Rule(products)
        /\ competition_data.product_count = Len(products)
        /\ (products = Rep(GumroadProduct(NoNumber, NoNumber, NoNumber), 8)
              => /\ competition_data.competition_level = "saturated"
                 /\ competition_data.competition_penalty = -20
                 /\ competition_data.avg_rating = None)
        /\ (products = Rep(GumroadProduct(48, 12, 1500), 3)
              => /\ competition_data.competition_level = "validated"
                 /\ competition_data.competition_penalty = -5)

\* a crowded keyword whose reviewed listings average below 3.5: the
\* low_quality rule wins over the saturated rule
C3_Witness ==
    /\ competition_data # None
    /\ competition_data.product_count >= 8
    /\ competition_data.avg_rating # None
    /\ competition_data.competition_level = "low_quality"

(***************************************************************************)
(* Claims about run_discovery.                                             *)
(***************************************************************************)
Returned == result # None

RedditRaised == \E i \in 1..Len(errors) : errors[i] = "Reddit search skipped: error"

XDown == x_call \in {"unconfigured", "failed"}

RedditDown == reddit_is_configured = "False" \/ RedditRaised

Scores(opps) == [i \in 1..Len(opps) |-> opps[i].opportunity_score]

CountOf(seq, v) == Cardinality({ i \in 1..Len(seq) : seq[i] = v })

\* C4: a run in which the X adapter and the Reddit adapter are both
\* unconfigured returns success = true, no opportunity,
\* below_threshold_filtered = 0 and one errors entry per unconfigured source.
C4_AllUnconfigured ==
    (Returned /\ ~x_api_key /\ reddit_is_configured = "False") =>
        /\ result.success
        /\ result.opportunities = <<>>
        /\ result.below_threshold_filtered = 0
        /\ Len(result.errors) = 2

\* C5: a run in which one source contributed at least one signal while the
\* other was down (unconfigured or failed) returns success = true.
C5_PartialDegradationSucceeds ==
    (Returned /\ (\/ result.total_x_signals > 0 /\ RedditDown
                  \/ result.total_reddit_signals > 0 /\ XDown)) =>
        result.success

\* C6: the returned success flag is true exactly when the returned
\* opportunities list is non-empty or the returned errors list is empty.
C6_SuccessFlag ==
    Returned => (result.success <=> (result.opportunities # <<>> \/ result.errors = <<>>))

\* a run that returns opportunities together with an error entry
C6_Witness ==
    /\ Returned
    /\ result.success
    /\ result.errors # <<>>
    /\ result.opportunities # <<>>

\* C7: for the X adapter and for the Reddit adapter, an unconfigured adapter
\* or a raising call appends a string to errors and leaves that source with
\* no signal, and run_discovery returns a result instead of raising.
C7_AdapterIsolation ==
    /\ pc # "raised"
    /\ Returned =>
         /\ x_call = "unconfigured" => result.total_x_signals = 0
         /\ RedditDown => result.total_reddit_signals = 0
         /\ Len(result.errors) = (IF x_call = "unconfigured" THEN 1 ELSE 0)
                                 + (IF RedditDown THEN 1 ELSE 0)

\* The run that sees the same adapter outcomes, competition data and store
\* but no trend data: every topic is scored with trend_score = 0.
TwinBuilt ==
    [i \in 1..Len(enrichment) |->
        BuildOpportunity(enrichment[i].topic,
                         TopicXSignals(all_x_signals, enrichment[i].topic),
                         TopicRedditSignals(all_reddit_signals, enrichment[i].topic),
                         0, enrichment[i].competition_data)]

TwinSurvivors ==
    LET kept == KeepAtLeast(TwinBuilt, config.min_score)
        fresh(o) == ~IsDuplicate(store, o.primary_keyword, config.duplicate_lookback_days, FALSE)
    IN  IF config.check_duplicates THEN Filter(kept, fresh) ELSE kept

TwinSuccess ==
    Success(Truncate(SortByScore(TwinSurvivors), config.max_opportunities), errors)

\* C8: a run and the run that differs from it only in having no trend data
\* (no duplicate lookup throwing in either) return the same success value.
C8_TrendNeverChangesSuccess ==
    (Returned /\ \A i \in 1..Len(dup_checked) : ~dup_checked[i].raised) =>
        result.success = TwinSuccess

BelowThreshold == { i \in 1..Len(built) : built[i].opportunity_score < config.min_score }

PassedThreshold == { i \in 1..Len(built) : built[i].opportunity_score >= config.min_score }

\* the k-th index of built, in order, whose score passed the threshold
RECURSIVE NthPassed(_, _)
NthPassed(k, from) ==
    IF from \in PassedThreshold
    THEN IF k = 1 THEN from ELSE NthPassed(k - 1, from + 1)
    ELSE NthPassed(k, from + 1)

\* C9: the stages run in the order score, threshold, duplicate suppression,
\* sort, truncate: below_threshold_filtered is the number of scored
\* opportunities under min_score, _is_duplicate is asked only about the
\* opportunities at or over min_score (each once, in order), an opportunity
\* under the threshold is never counted in duplicates_filtered, and what is
\* sorted and truncated is what passed both filters.
C9_StageOrder ==
    Returned =>
        /\ result.below_threshold_filtered = Cardinality(BelowThreshold)
        /\ Len(dup_checked) = IF config.check_duplicates THEN Cardinality(PassedThreshold) ELSE 0
        /\ \A k \in 1..Len(dup_checked) :
              dup_checked[k].primary_keyword = built[NthPassed(k, 1)].primary_keyword
        /\ result.duplicates_filtered = Cardinality({ k \in 1..Len(dup_checked) :
                                                        dup_checked[k].is_duplicate })
        /\ Len(before_truncation) = Cardinality(PassedThreshold) - result.duplicates_filtered
        /\ result.below_threshold_filtered + result.duplicates_filtered
             + Len(before_truncation) = Len(built)
        /\ Len(result.opportunities) = Min2(Len(before_truncation), config.max_opportunities)

\* a run that scored a topic under the threshold whose keyword is in the
\* store, and dropped another topic as a duplicate
C9_Witness ==
    /\ Returned
    /\ config.check_duplicates
    /\ \E i \in BelowThreshold :
          IsDuplicate(store, built[i].primary_keyword, config.duplicate_lookback_days, FALSE)
    /\ result.below_threshold_filtered > 0
    /\ Len(dup_checked) > 0

\* C10: with max_opportunities >= 0 the returned opportunities are in
\* non-increasing order of opportunity_score, at most max_opportunities in
\* number, each at or over min_score, and every opportunity that passed both
\* filters and was cut has a score no greater than every returned one.
C10_SortedTopN ==
    (Returned /\ config.max_opportunities >= 0) =>
        LET ret == Scores(result.opportunities)
            all == Scores(before_truncation)
        IN  /\ \A i \in 1..(Len(ret) - 1) : ret[i] >= ret[i + 1]
            /\ Len(ret) <= config.max_opportunities
            /\ \A i \in 1..Len(ret) : ret[i] >= config.min_score
            /\ \A i \in 1..Len(ret) : CountOf(ret, ret[i]) <= CountOf(all, ret[i])
            /\ \A j \in 1..Len(all) :
                  CountOf(all, all[j]) > CountOf(ret, all[j]) =>
                      \A i \in 1..Len(ret) : all[j] <= ret[i]

\* a run in which the second scored topic outranks the first and truncation
\* cuts the lower one
C10_Witness ==
    /\ Returned
    /\ Len(before_truncation) = 2
    /\ before_truncation[1].opportunity_score < before_truncation[2].opportunity_score
    /\ Len(result.opportunities) = 1

(***************************************************************************)
(* Claims about the duplicate lookups.                                     *)
(***************************************************************************)
\* rule (a): a stored record with the lowercased keyword, created within
\* lookback_days
RuleRecentRecord(keyword) ==
    \E r \in store.opportunities :
        r.primary_keyword = Lower(keyword) /\ r.age_days <= config.duplicate_lookback_days

\* rule (b): a published title that holds the keyword, compared without case
RuleTitleHolds(keyword) ==
    \E title \in store.products : Contains(Lower(title), Lower(keyword))

\* C11: with check_duplicates on, an opportunity that passed the threshold
\* (its lookups not throwing) is removed as a duplicate exactly when the store
\* holds a record of its lowercased keyword created within lookback_days, or
\* a published-product title contains the keyword as a case-insensitive
\* substring.
C11_DuplicateExactlyWhen ==
    \A k \in 1..Len(dup_checked) :
        ~dup_checked[k].raised =>
            (dup_checked[k].is_duplicate <=>
                (RuleRecentRecord(dup_checked[k].primary_keyword)
                 \/ RuleTitleHolds(dup_checked[k].primary_keyword)))

AdapterErrors == (IF x_call = "unconfigured" THEN 1 ELSE 0) + (IF RedditRaised THEN 1 ELSE 0)

\* the lookups of the duplicate loop that threw
RaisedLookups == { k \in 1..Len(dup_checked) : dup_checked[k].raised }

\* C12 as stated: an opportunity whose duplicate lookup raises is in the
\* returned opportunities.
C12_RaisedLookupIsReturned ==
    Returned =>
        \A k \in RaisedLookups :
            \E j \in 1..Len(result.opportunities) :
                result.opportunities[j] = built[NthPassed(k, 1)]

\* C12 amended: a lookup that raises answers "not a duplicate": the
\* opportunity passes the duplicate stage (it is in the list handed to sort
\* and truncate), duplicates_filtered counts only lookups that did not raise,
\* errors holds nothing but the adapters' entries, and every opportunity over
\* the threshold is still looked up.
C12_FailOpen ==
    /\ \A k \in RaisedLookups : ~dup_checked[k].is_duplicate
    /\ Returned =>
         /\ \A k \in RaisedLookups :
               \E j \in 1..Len(before_truncation) :
                   before_truncation[j] = built[NthPassed(k, 1)]
         /\ result.duplicates_filtered
              = Cardinality({ k \in 1..Len(dup_checked) :
                                ~dup_checked[k].raised /\ dup_checked[k].is_duplicate })
         /\ Len(result.errors) = AdapterErrors
         /\ config.check_duplicates => Len(dup_checked) = Cardinality(PassedThreshold)

\* a run whose first lookup raised, whose second lookup was still made, and
\* that returns an opportunity although the store holds a recent record of
\* its keyword
C12_Witness ==
    /\ Returned
    /\ Len(dup_checked) = 2
    /\ dup_checked[1].raised
    /\ \E k \in RaisedLookups :
          /\ RuleRecentRecord(dup_checked[k].primary_keyword)
          /\ \E j \in 1..Len(result.opportunities) :
                result.opportunities[j].primary_keyword = dup_checked[k].primary_keyword

(***************************************************************************)
(* Claims about search_competitors.                                        *)
(***************************************************************************)
\* C13: whenever the marketplace fetch fails (it raises, times out, or the
\* response is not a 200), search_competitors returns a summary with
\* competition_level "unknown" and competition_penalty -5.
C13_FetchFailureDefault ==
    \A i \in 1..Len(gum_calls) :
        gum_calls[i].path \in {"failed", "bad_status"} =>
            /\ gum_calls[i].summary.competition_level = "unknown"
            /\ gum_calls[i].summary.competition_penalty = -5

\* C14: any two summaries returned by search_competitors (fresh, cached or
\* the failure default) with the same product_count and the same avg_rating
\* have the same competition_penalty.
C14_PenaltyIsFunctionOfCountAndRating ==
    \A i, j \in 1..Len(gum_calls) :
        (/\ gum_calls[i].summary.product_count = gum_calls[j].summary.product_count
         /\ gum_calls[i].summary.avg_rating = gum_calls[j].summary.avg_rating)
        => gum_calls[i].summary.competition_penalty = gum_calls[j].summary.competition_penalty

SameKey(i, j) == CacheKey(gum_calls[i].keyword) = CacheKey(gum_calls[j].keyword)

\* C15 as stated: two calls for the same cache key (use_cache left on) made
\* less than 24 hours apart return identical summaries, whatever the outcome
\* of the first call was.
C15_TwoCallsIdentical ==
    \A i, j \in 1..Len(gum_calls) :
        (/\ i < j
         /\ SameKey(i, j)
         /\ gum_calls[i].use_cache /\ gum_calls[j].use_cache
         /\ gum_calls[j].at - gum_calls[i].at < 24)
        => gum_calls[j].summary = gum_calls[i].summary

\* the calls before j that stored a summary under j's key
StoresBefore(j) ==
    { k \in 1..(j - 1) : SameKey(k, j) /\ gum_calls[k].path \in {"fresh", "bad_status"} }

LastStoreBefore(j) == CHOOSE k \in StoresBefore(j) : \A m \in StoresBefore(j) : m <= k

\* C15 amended: a call with use_cache on that is made less than 24 hours
\* after the last summary was stored under its key returns that summary,
\* identical in every field, without fetching; a call with no stored summary
\* for its key (none yet, or the earlier calls failed) or made 24 hours or
\* more after the store fetches again.
C15_CacheWindow ==
    \A j \in 1..Len(gum_calls) :
        gum_calls[j].use_cache =>
            IF StoresBefore(j) # {} /\ gum_calls[j].at - gum_calls[LastStoreBefore(j)].at < 24
            THEN /\ gum_calls[j].path = "cache"
                 /\ gum_calls[j].summary = gum_calls[LastStoreBefore(j)].summary
            ELSE gum_calls[j].path # "cache"

\* a call served from the cache 23 hours after another spelling of the
\* keyword stored a summary of eight listings
C15_Witness ==
    \E j \in 1..Len(gum_calls) :
        /\ gum_calls[j].path = "cache"
        /\ gum_calls[j].keyword # gum_calls[LastStoreBefore(j)].keyword
        /\ gum_calls[j].at - gum_calls[LastStoreBefore(j)].at = 23
        /\ gum_calls[j].summary.product_count = 8

(***************************************************************************)
(* The trend cache and the cool-down (SpecTrends).                         *)
(***************************************************************************)
TrendKeyOf(i) == TrendCacheKey(trend_calls[i].keyword, TrendGeo, TrendTimeframe)

\* call i stored the entry that the cache holds for its key when call j starts
EntryAt(i, j) ==
    /\ i < j
    /\ trend_calls[i].path = "fetch"
    /\ TrendKeyOf(i) = TrendKeyOf(j)
    /\ \A k \in (i + 1)..(j - 1) :
           ~(trend_calls[k].path = "fetch" /\ TrendKeyOf(k) = TrendKeyOf(j))

\* the cool-down started by an empty fetch is running when call j starts
CoolDownAt(j) ==
    \E k \in 1..(j - 1) :
        /\ trend_calls[k].path = "fetch"
        /\ trend_calls[k].data.interest_over_time = <<>>
        /\ trend_calls[j].at < trend_calls[k].returned_at + RATE_LIMIT_SECONDS

ServedFromEntry(i, j) ==
    /\ trend_calls[j].upstream = "none"
    /\ trend_calls[j].data = trend_calls[i].data

\* C16 as stated: a value cached at T is returned unchanged, with no network
\* call, by every lookup of its key before T + 6h, and every lookup of the key
\* after T + 6h attempts a re-fetch.
C16_FreshThenRefetch ==
    \A j \in 1..Len(trend_calls) : \A i \in 1..(j - 1) :
        EntryAt(i, j) =>
            /\ trend_calls[j].at < trend_calls[i].returned_at + CACHE_HOURS * 3600
                  => trend_calls[j].path = "cache" /\ ServedFromEntry(i, j)
            /\ trend_calls[j].at > trend_calls[i].returned_at + CACHE_HOURS * 3600
                  => trend_calls[j].path = "fetch"

\* C16, amended: a value cached at T is returned unchanged, with no network
\* call, by every lookup of its key before T + 6h.  A lookup of the key at or
\* after T + 6h is not answered by the cache check: it makes the upstream call
\* when no cool-down is running and the scout is available; during a cool-down
\* it returns the expired entry with no network call; with the scout
\* unavailable it returns the default with no network call.
C16_FreshThenExpired ==
    \A j \in 1..Len(trend_calls) : \A i \in 1..(j - 1) :
        EntryAt(i, j) =>
            /\ trend_calls[j].at < trend_calls[i].returned_at + CACHE_HOURS * 3600
                  => trend_calls[j].path = "cache" /\ ServedFromEntry(i, j)
            /\ trend_calls[j].at >= trend_calls[i].returned_at + CACHE_HOURS * 3600
                  => IF CoolDownAt(j)
                     THEN trend_calls[j].path = "cool-down" /\ ServedFromEntry(i, j)
                     ELSE IF ~trend_calls[j].available
                     THEN /\ trend_calls[j].path = "unavailable"
                          /\ trend_calls[j].upstream = "none"
                          /\ trend_calls[j].data =
                                 DefaultTrendData(trend_calls[j].keyword, TrendGeo,
                                                  TrendTimeframe)
                     ELSE trend_calls[j].path = "fetch"

\* a value of 75 cached at T is handed back, expired, during the cool-down
\* that an empty fetch of the other keyword started
C16_Witness ==
    \E j \in 1..Len(trend_calls) : \E i \in 1..(j - 1) :
        /\ EntryAt(i, j)
        /\ trend_calls[i].data.interest_score = 75
        /\ trend_calls[j].at > trend_calls[i].returned_at + CACHE_HOURS * 3600
        /\ trend_calls[j].path = "cool-down"
        /\ ServedFromEntry(i, j)

\* call k made the upstream call and got no value for its keyword
EmptyFetch(k) ==
    /\ trend_calls[k].path = "fetch"
    /\ trend_calls[k].data.interest_over_time = <<>>

\* what the cache holds for the key of call j when call j starts, or the default
CachedOrDefault(j) ==
    IF \E i \in 1..(j - 1) : EntryAt(i, j)
    THEN trend_calls[CHOOSE i \in 1..(j - 1) : EntryAt(i, j)].data
    ELSE DefaultTrendData(trend_calls[j].keyword, TrendGeo, TrendTimeframe)

\* C17: after a fetch came back empty at time t, every analyze_keyword call
\* before t + 60 s, whatever its keyword, makes no upstream call and returns
\* the cached entry of its key if there is one, else the zero default.
C17_CoolDown ==
    \A j \in 1..Len(trend_calls) : \A k \in 1..(j - 1) :
        (EmptyFetch(k) /\ trend_calls[j].at < trend_calls[k].returned_at + RATE_LIMIT_SECONDS)
            => /\ trend_calls[j].upstream = "none"
               /\ trend_calls[j].data = CachedOrDefault(j)

\* 59 s after an empty fetch the other keyword, with nothing cached and the
\* scout available, gets the default from the cool-down branch
C17_Witness ==
    \E k \in 1..Len(trend_calls) : \E j \in (k + 1)..Len(trend_calls) :
        /\ EmptyFetch(k)
        /\ trend_calls[j].at = trend_calls[k].returned_at + 59
        /\ TrendKeyOf(j) # TrendKeyOf(k)
        /\ trend_calls[j].available
        /\ trend_calls[j].path = "cool-down"
        /\ trend_calls[j].data = DefaultTrendData(trend_calls[j].keyword, TrendGeo,
                                                  TrendTimeframe)

\* the upstream call of call j timed out or raised
UpstreamFailed(j) == trend_calls[j].upstream \in {"timeout", "raises"}

ZeroValued(data) == data.interest_score = 0 /\ data.interest_over_time = <<>>

\* C18: every trend lookup hands a TrendData to its caller; when the upstream
\* call times out after the 10-second budget or raises, the value handed back
\* is zero-valued (empty series, interest_score 0), at most 10 s after the call
\* started.
C18_FailureGivesZero ==
    \A j \in 1..Len(trend_calls) :
        /\ trend_calls[j].data.keyword = trend_calls[j].keyword
        /\ trend_calls[j].data.interest_score \in 0..100
        /\ UpstreamFailed(j)
              => /\ ZeroValued(trend_calls[j].data)
                 /\ trend_calls[j].returned_at <= trend_calls[j].at + PYTRENDS_TIMEOUT_SECONDS

\* a key whose expired entry held 75 is looked up again, the upstream call
\* times out, and the zero value comes back 10 s after the call started
C18_Witness ==
    \E j \in 1..Len(trend_calls) : \E i \in 1..(j - 1) :
        /\ EntryAt(i, j)
        /\ trend_calls[i].data.interest_score = 75
        /\ trend_calls[j].upstream = "timeout"
        /\ trend_calls[j].returned_at = trend_calls[j].at + PYTRENDS_TIMEOUT_SECONDS
        /\ ZeroValued(trend_calls[j].data)

(***************************************************************************)
(* Failures inside run_discovery (Spec).                                   *)
(***************************************************************************)
AdapterMessages ==
    {"X/Grok not configured (XAI_API_KEY missing)", "Reddit search skipped: error"}

\* a topic of the run whose trend lookup and competition lookup both failed
EnrichmentFailed(e) ==
    /\ TrendFailed(config, trends_is_available, e.trend_score)
    /\ CompetitionFailed(e.competition_data)

\* C19: a failed trend lookup or competition lookup of a topic adds nothing
\* to errors: at every point of the run errors holds only the entries of the
\* two source adapters, one per adapter at most.
C19_EnrichmentNeverInErrors ==
    /\ \A i \in 1..Len(errors) : errors[i] \in AdapterMessages
    /\ Len(errors) = AdapterErrors
    /\ Returned => result.errors = errors

\* a run returns with no error entry although the trend lookup and the
\* competition lookup of a topic both failed
C19_Witness ==
    /\ Returned
    /\ result.errors = <<>>
    /\ \E i \in 1..Len(enrichment) : EnrichmentFailed(enrichment[i])

\* the returned errors hold an entry about the X search
XFailureRecorded ==
    \E i \in 1..Len(result.errors) : result.errors[i] = "X search error"

\* the returned errors hold an entry about the Reddit search
RedditFailureRecorded ==
    \E i \in 1..Len(result.errors) : result.errors[i] = "Reddit search skipped: error"

\* a failed X search leaves no X signal and an entry in errors
XFailureHandled ==
    (Returned /\ x_call = "failed") => (result.total_x_signals = 0 /\ XFailureRecorded)

\* a failed Reddit search leaves no Reddit signal and an entry in errors
RedditFailureHandled ==
    (Returned /\ RedditRaised) => (result.total_reddit_signals = 0 /\ RedditFailureRecorded)

\* C20: whenever the call of a source adapter fails during run_discovery (the
\* primary X search or the Reddit search), that source contributes zero
\* signals and the returned errors hold an entry describing the failure.
C20_SourceFailureRecorded == XFailureHandled /\ RedditFailureHandled

(***************************************************************************)
(* Evidence URLs (SpecScore).                                              *)
(***************************************************************************)
\* the URL belongs to a signal of the primary source of the call
PrimaryUrl(u) ==
    \E i \in 1..Len(score_args.x_signals) : score_args.x_signals[i].url = u

\* the URL belongs to a signal of the supplementary source of the call
SupplementaryUrl(u) ==
    \E i \in 1..Len(score_args.reddit_signals) : score_args.reddit_signals[i].post_url = u

PrimaryUrlsFirst(urls) ==
    \A i \in 1..Len(urls) : \A j \in (i + 1)..Len(urls) :
        ~(SupplementaryUrl(urls[i]) /\ PrimaryUrl(urls[j]))

\* C21: for every input of score_unified_signals the returned evidence_urls
\* has at most 5 entries in total, and the URLs of primary-source signals come
\* before the URLs of supplementary-source signals.
C21_EvidenceAtMostFive ==
    score_result # None =>
        /\ Len(score_result.evidence_urls) <= 5
        /\ PrimaryUrlsFirst(score_result.evidence_urls)

(***************************************************************************)
(* Product type and price (SpecInfer, SpecPrice).                          *)
(***************************************************************************)
InferScores == TypeScores(infer_args.x_signals, infer_args.reddit_signals)

\* type t has a score strictly above the score of every other type
StrictlyHighest(type_scores, t) ==
    \A u \in 1..Len(type_scores) : u # t => type_scores[u] < type_scores[t]

\* C22: each type is scored by its keyword hits, 2 per hit in a primary-source
\* signal and 1 per hit in a supplementary one; the type with the strictly
\* highest score is returned, and guide is returned when two or more types
\* share the highest score or every score is zero.
C22_ArgmaxElseGuide ==
    infer_result # None =>
        IF \E t \in 1..Len(InferScores) : StrictlyHighest(InferScores, t)
        THEN \E t \in 1..Len(InferScores) :
                /\ StrictlyHighest(InferScores, t)
                /\ infer_result.product_type = PRODUCT_TYPE_KEYWORDS[t].type
        ELSE infer_result.product_type = "guide"

(***************************************************************************)
(* The demand and intent tables (SpecScore).                               *)
(***************************************************************************)
\* the value of the first row of a table of <<threshold, points>> rows whose
\* threshold n reaches, 0 when it reaches none
RECURSIVE Stepped(_, _)
Stepped(n, rows) ==
    IF rows = <<>> THEN 0
    ELSE IF n >= Head(rows)[1] THEN Head(rows)[2]
    ELSE Stepped(n, Tail(rows))

\* the number of tags, over the signals of a source, in the given field
RECURSIVE Tags(_, _)
Tags(signals, field) ==
    IF signals = <<>> THEN 0 ELSE Len(Head(signals)[field]) + Tags(Tail(signals), field)

RECURSIVE WeightedEngagement(_)
WeightedEngagement(signals) ==
    IF signals = <<>> THEN 0
    ELSE Head(signals).post_score + 2 * Head(signals).comment_count
         + WeightedEngagement(Tail(signals))

ClaimedP == Stepped(Len(score_args.x_signals), << <<20, 30>>, <<10, 22>>, <<5, 15>>, <<2, 8>> >>)

ClaimedS ==
    LET count == Len(score_args.reddit_signals)
        engagement == WeightedEngagement(score_args.reddit_signals)
    IN  IF count >= 10 /\ engagement >= 500 THEN 10
        ELSE IF count >= 5 /\ engagement >= 200 THEN 7
        ELSE IF count >= 2 THEN 4
        ELSE 0

ClaimedT == Stepped(score_args.trend_score, << <<70, 10>>, <<50, 7>>, <<30, 4>> >>)

\* C23: for every non-empty signal input, demand_score = min(50, P + S + T)
\* with P from the primary-source count (30/22/15/8/0 at 20/10/5/2), S from
\* the supplementary count and weighted engagement (10 at 10 and 500, 7 at 5
\* and 200, 4 at 2) and T from the trend score (10/7/4/0 at 70/50/30).
C23_DemandTable ==
    (score_result # None /\ ~ScoreCallEmpty) =>
        score_result.demand_score = Min2(50, ClaimedP + ClaimedS + ClaimedT)

\* ten primary signals, ten supplementary ones whose engagement reaches 200
\* but not 500, and a trend score of 30: 22 + 7 + 4
C23_Witness ==
    /\ score_result # None
    /\ Len(score_args.x_signals) = 10
    /\ Len(score_args.reddit_signals) = 10
    /\ WeightedEngagement(score_args.reddit_signals) = 400
    /\ score_args.trend_score = 30
    /\ score_result.demand_score = 33

ClaimedPB ==
    Stepped(Tags(score_args.x_signals, "buying_signals"), << <<10, 15>>, <<5, 10>>, <<2, 5>> >>)

ClaimedPP ==
    Stepped(Tags(score_args.x_signals, "pain_points"), << <<10, 10>>, <<5, 7>>, <<2, 4>> >>)

ClaimedSB ==
    Stepped(Tags(score_args.reddit_signals, "buying_signals"), << <<5, 5>>, <<2, 3>> >>)

ClaimedSP ==
    Stepped(Tags(score_args.reddit_signals, "pain_points"), << <<5, 5>>, <<2, 3>> >>)

\* C24: for every non-empty signal input, intent_score =
\* min(40, PB + PP + SB + SP): PB 15/10/5/0 and PP 10/7/4/0 for a
\* primary-source buying-signal (pain-point) tag count of 10/5/2, SB and SP
\* 5/3/0 for a supplementary tag count of 5/2.
C24_IntentTable ==
    (score_result # None /\ ~ScoreCallEmpty) =>
        score_result.intent_score =
            Min2(40, ClaimedPB + ClaimedPP + ClaimedSB + ClaimedSP)

\* five primary signals with one buying tag and two pain tags each, two
\* supplementary signals with one tag of each kind: 10 + 10 + 3 + 3
C24_Witness ==
    /\ score_result # None
    /\ Tags(score_args.x_signals, "buying_signals") = 5
    /\ Tags(score_args.x_signals, "pain_points") = 10
    /\ Tags(score_args.reddit_signals, "buying_signals") = 2
    /\ Tags(score_args.reddit_signals, "pain_points") = 2
    /\ score_result.intent_score = 26

\* the band of the call: the band of the type, the band of guide for a type
\* that is not in the table
ClaimedBand ==
    IF price_args.product_type \in DOMAIN PRICE_RANGES
    THEN PRICE_RANGES[price_args.product_type]
    ELSE PRICE_RANGES.guide

\* C25: _suggest_price returns the band's min below 40, default from 40 up to
\* 60, (default + max) / 2 from 60 up to 80 and max from 80, so the price never
\* decreases when the score increases.
C25_PriceSteps ==
    price_result # None =>
        /\ price_args.score < 40 => price_result.price_cents = ClaimedBand.min
        /\ (40 <= price_args.score /\ price_args.score < 60)
              => price_result.price_cents = ClaimedBand.default
        /\ (60 <= price_args.score /\ price_args.score < 80)
              => 2 * price_result.price_cents = ClaimedBand.default + ClaimedBand.max
        /\ price_args.score >= 80 => price_result.price_cents = ClaimedBand.max
        /\ \A lower \in PriceScores :
              lower <= price_args.score
                 => SuggestPrice(price_args.product_type, lower) <= price_result.price_cents

\* a checklist scored 60 is priced halfway between 700 and 1200
C25_Witness ==
    /\ price_result # None
    /\ price_args.product_type = "checklist"
    /\ price_args.score = 60
    /\ price_result.price_cents = 950

(***************************************************************************)
(* The executor of the trends scout (SpecTrends).                          *)
(***************************************************************************)
TimedOutCalls == { j \in 1..Len(trend_calls) : trend_calls[j].upstream = "timeout" }

\* C26: in every reachable state of a TrendsScout, also after a lookup timed
\* out with its upstream request still running and further lookups were
\* issued, at most one upstream trend request is executing.
C26_OneUpstreamAtATime == trend_executing <= 1

\* two lookups have timed out: the request of the first is still running and
\* the request of the second waits behind it
C26_Witness ==
    /\ Cardinality(TimedOutCalls) >= 2
    /\ trend_executing = 1
    /\ trend_pending >= 1

\* call j is the first call of the key of call k made later than 60 s after
\* call k returned
FirstAfterCoolDown(k, j) ==
    /\ k < j
    /\ TrendKeyOf(j) = TrendKeyOf(k)
    /\ trend_calls[j].at > trend_calls[k].returned_at + RATE_LIMIT_SECONDS
    /\ \A i \in (k + 1)..(j - 1) :
          ~(/\ TrendKeyOf(i) = TrendKeyOf(k)
            /\ trend_calls[i].at > trend_calls[k].returned_at + RATE_LIMIT_SECONDS)

\* C27: when a fetch for a keyword came back empty at time t, the first
\* analyze_keyword call for that keyword made after t + 60 s, with the trend
\* source available and no other cool-down running, goes to the network again
\* instead of answering with the zero value of the empty fetch.
C27_RetryAfterCoolDown ==
    \A j \in 1..Len(trend_calls) : \A k \in 1..(j - 1) :
        (/\ EmptyFetch(k)
         /\ FirstAfterCoolDown(k, j)
         /\ trend_calls[j].available
         /\ ~CoolDownAt(j))
            => trend_calls[j].path = "fetch"

(***************************************************************************)
(* The topics of a run (Spec).                                             *)
(***************************************************************************)
\* a word of the topic that is longer than 2 characters occurs in the text
RECURSIVE HoldsTopicWord(_, _)
HoldsTopicWord(text, words) ==
    IF words = <<>> THEN FALSE
    ELSE \/ (Len(Head(words)) > 2 /\ Contains(Lower(text), Lower(Head(words))))
         \/ HoldsTopicWord(text, Tail(words))

\* the number of signals the stated rule associates to the topic: those whose
\* text holds a topic word, or all of them when none does
ClaimedMentions(texts, topic) ==
    LET matching == Cardinality({ i \in 1..Len(texts) : HoldsTopicWord(texts[i], Split(topic)) })
    IN  IF matching = 0 THEN Len(texts) ELSE matching

XTexts == [i \in 1..Len(all_x_signals) |-> all_x_signals[i].text]

RedditTitles == [i \in 1..Len(all_reddit_signals) |-> all_reddit_signals[i].post_title]

\* C28: in the per-topic association, for each source separately, a signal
\* belongs to the topic when its text holds a topic word longer than 2
\* characters, and when no signal of the source matches, all signals of the
\* source are associated to the topic.
C28_AssociationWithFallback ==
    \A i \in 1..Len(built) :
        /\ built[i].x_mentions = ClaimedMentions(XTexts, enrichment[i].topic)
        /\ built[i].reddit_mentions = ClaimedMentions(RedditTitles, enrichment[i].topic)

\* C29: every opportunity built for a topic carries that topic as its
\* primary_keyword, whichever sources contributed signals, so every duplicate
\* lookup is made with the keyword of a topic of the run and no two lookups of
\* a run share a keyword.
C29_KeywordIsTopic ==
    /\ \A i \in 1..Len(built) : built[i].primary_keyword = enrichment[i].topic
    /\ \A d \in 1..Len(dup_checked) :
          \E i \in 1..Len(enrichment) : dup_checked[d].primary_keyword = enrichment[i].topic
    /\ \A d \in 1..Len(dup_checked) : \A e \in 1..Len(dup_checked) :
          d # e => dup_checked[d].primary_keyword # dup_checked[e].primary_keyword

\* the topics of the run that have at least one associated signal
TopicsWithSignals ==
    { t \in 1..Len(config.topics) :
        \/ TopicXSignals(all_x_signals, config.topics[t]) # <<>>
        \/ TopicRedditSignals(all_reddit_signals, config.topics[t]) # <<>> }

====
